---- MODULE Spec2Model ----
(***************************************************************************)
(* Asset tree engine of egen (src/assets.go): the intrusive tree of        *)
(* assetsTreeNode objects, its traversal protocol, child insertion,        *)
(* removal and the relative-path lookup in the global (GAT) and post (PAT) *)
(* assets trees.                                                           *)
(*                                                                         *)
(* Nodes live in a heap indexed by 1..MaxNodes; a pointer is an index and  *)
(* NIL is the nil pointer. Strings are sequences of bytes.                 *)
(***************************************************************************)
EXTENDS Integers, Sequences, FiniteSets, TLC

\* ------------------------------------------------------------------ bounds
MaxNodes == 4
MaxSegments == 3
\* os.ReadFile calls of the content queries on one node that are counted
MaxReads == 3

\* --------------------------------------------------------------- constants
NIL == 0

FILENODE == 0
DIRNODE == 1
IMGNODE == 2

next == 0
skipChildren == 1
terminate == 2

NodeTypes == {FILENODE, DIRNODE, IMGNODE}
Statuses == {next, skipChildren, terminate}

\* errors returned by a visitor: nil or one error value
NoErr == "nil"
SomeErr == "some"
\* a call that panics instead of returning
PanicErr == "panic"

\* bytes used in names and paths: "/" "a" "b" "r" "e" "s" "t"
Slash == 47
ChA == 97
ChB == 98
ChR == 114
ChE == 101
ChS == 115
ChT == 116

EmptyStr == << >>
RootName == <<ChA, ChS, ChS, ChE, ChT, ChS>>
RootPath == <<ChR>>
PatRootPath == <<ChB, ChR>>
\* names given to addChild: "a", "ab", "b"
Names == {<<ChA>>, <<ChA, ChB>>, <<ChB>>}

NodeIds == 1..MaxNodes

VARIABLES t, name, path, parent, firstChild, nextSib, previous, nAlloc, roots, lastOp, tr, found,
          content, sizes, processedPath, processedRelPath, disk, out, res, reads

vars == <<t, name, path, parent, firstChild, nextSib, previous, nAlloc, roots, lastOp, tr, found,
          content, sizes, processedPath, processedRelPath, disk, out, res, reads>>

\* the fields of the nodes
nodeVars == <<t, name, path, parent, firstChild, nextSib, previous,
              content, sizes, processedPath, processedRelPath>>

\* the heap as one value, so that the operations are functions of it
Heap == [t |-> t, name |-> name, path |-> path, parent |-> parent,
         firstChild |-> firstChild, next |-> nextSib, previous |-> previous,
         content |-> content, sizes |-> sizes,
         processedPath |-> processedPath, processedRelPath |-> processedRelPath]

\* ------------------------------------------------------------------ strings
Min2(a, b) == IF a < b THEN a ELSE b

\* Go's string comparison a < b: bytewise lexicographic
StrLess(a, b) ==
  \/ \E i \in 1..Min2(Len(a), Len(b)) :
        /\ a[i] < b[i]
        /\ \A j \in 1..(i - 1) : a[j] = b[j]
  \/ /\ Len(a) < Len(b)
     /\ \A j \in 1..Len(a) : a[j] = b[j]

\* the comparison with its operands swapped
LessSwapped(a, b) == StrLess(b, a)

\* sort.StringSlice([]string{a, b}).Less(0, 1)
Less(a, b) == StrLess(a, b)

\* path.Join(a, b) for two elements free of ".", ".." and double slashes:
\* empty elements are ignored, the others are joined by "/"
pathJoin(a, b) ==
  IF a = EmptyStr THEN b
  ELSE IF b = EmptyStr THEN a
  ELSE a \o <<Slash>> \o b

\* index of the first "/" of s, 0 when there is none
RECURSIVE IndexSlash(_, _)
IndexSlash(s, i) ==
  IF i > Len(s) THEN 0
  ELSE IF s[i] = Slash THEN i
  ELSE IndexSlash(s, i + 1)

\* strings.Split(s, "/"): always at least one segment, empty segments kept
RECURSIVE Split(_)
Split(s) ==
  LET i == IndexSlash(s, 1) IN
  IF i = 0 THEN <<s>>
  ELSE <<SubSeq(s, 1, i - 1)>> \o Split(SubSeq(s, i + 1, Len(s)))

\* strings.TrimPrefix(s, "/")
TrimPrefixSlash(s) ==
  IF Len(s) > 0 /\ s[1] = Slash THEN SubSeq(s, 2, Len(s)) ELSE s

\* segs joined by "/"
RECURSIVE JoinSegments(_)
JoinSegments(segs) ==
  IF Len(segs) = 1 THEN segs[1]
  ELSE segs[1] \o <<Slash>> \o JoinSegments(Tail(segs))

\* strings.HasPrefix, HasSuffix, TrimPrefix, TrimSuffix, Contains
HasPrefix(s, pre) == Len(pre) <= Len(s) /\ SubSeq(s, 1, Len(pre)) = pre
HasSuffix(s, suf) == Len(suf) <= Len(s) /\ SubSeq(s, Len(s) - Len(suf) + 1, Len(s)) = suf
TrimPrefix(s, pre) == IF HasPrefix(s, pre) THEN SubSeq(s, Len(pre) + 1, Len(s)) ELSE s
TrimSuffix(s, suf) == IF HasSuffix(s, suf) THEN SubSeq(s, 1, Len(s) - Len(suf)) ELSE s
Contains(s, sub) ==
  \E i \in 0..(Len(s) - Len(sub)) : SubSeq(s, i + 1, i + Len(sub)) = sub

\* "." and ".."
OneDot == <<46>>
DotDot == <<46, 46>>

\* filepath.Ext(p): the suffix of the last element of p that starts at its
\* last dot, empty when that element has no dot
RECURSIVE filepathExtFrom(_, _)
filepathExtFrom(p, i) ==
  IF i < 1 \/ p[i] = Slash THEN EmptyStr
  ELSE IF p[i] = 46 THEN SubSeq(p, i, Len(p))
  ELSE filepathExtFrom(p, i - 1)

filepathExt(p) == filepathExtFrom(p, Len(p))

\* strconv.Itoa(n) for n >= 0: the decimal digits of n
RECURSIVE Itoa(_)
Itoa(n) ==
  IF n < 10 THEN <<48 + n>> ELSE Itoa(n \div 10) \o <<48 + (n % 10)>>

\* the elements that path.Clean keeps: empty and "." elements go, ".." takes
\* the element before it away (at the start of a rooted path it goes itself)
RECURSIVE cleanSegments(_, _, _)
cleanSegments(segs, kept, rooted) ==
  IF segs = << >> THEN kept
  ELSE
    LET s == Head(segs)
        rest == Tail(segs)
    IN IF s = EmptyStr \/ s = OneDot THEN cleanSegments(rest, kept, rooted)
       ELSE IF s = DotDot
            THEN IF Len(kept) > 0 /\ kept[Len(kept)] # DotDot
                 THEN cleanSegments(rest, SubSeq(kept, 1, Len(kept) - 1), rooted)
                 ELSE IF rooted THEN cleanSegments(rest, kept, rooted)
                 ELSE cleanSegments(rest, Append(kept, s), rooted)
       ELSE cleanSegments(rest, Append(kept, s), rooted)

\* path.Clean(p)
pathClean(p) ==
  LET joined(rooted, kept) ==
        IF kept = << >> THEN (IF rooted THEN <<Slash>> ELSE OneDot)
        ELSE IF rooted THEN <<Slash>> \o JoinSegments(kept)
        ELSE JoinSegments(kept)
      cleaned(rooted) == joined(rooted, cleanSegments(Split(p), << >>, rooted))
  IN cleaned(Len(p) > 0 /\ p[1] = Slash)

\* path.Join(elems...): the non-empty elements joined by "/" and cleaned,
\* the empty string when there is none
pathJoinAll(elems) ==
  LET ne == SelectSeq(elems, LAMBDA e : e # EmptyStr) IN
  IF ne = << >> THEN EmptyStr ELSE pathClean(JoinSegments(ne))

\* the directory a cleaned path lies in
RECURSIVE LastSlash(_, _)
LastSlash(p, i) ==
  IF i < 1 THEN 0 ELSE IF p[i] = Slash THEN i ELSE LastSlash(p, i - 1)

pathDir(p) ==
  LET i == LastSlash(p, Len(p)) IN
  IF i = 0 THEN OneDot ELSE IF i = 1 THEN <<Slash>> ELSE SubSeq(p, 1, i - 1)

pathBase(p) == SubSeq(p, LastSlash(p, Len(p)) + 1, Len(p))

\* md5.Sum and hex.EncodeToString: a digest that is a function of the bytes
\* alone, here one byte wide, and its two lower-case hexadecimal digits
RECURSIVE md5Sum(_)
md5Sum(bs) ==
  IF bs = << >> THEN 7 ELSE (31 * md5Sum(Tail(bs)) + Head(bs)) % 256

hexDigit(k) == IF k < 10 THEN 48 + k ELSE 87 + k
hexEncodeToString(b) == <<hexDigit(b \div 16), hexDigit(b % 16)>>

\* ------------------------------------------------------------- file system
\* A file system is a function from cleaned paths to entries. The entries of
\* the input side (disk) carry what reading them gives: the bytes, the width
\* in the image header and the error of opening or listing them. The entries
\* of the output side (out) carry the bytes and the number of completed
\* writes.
ErrNotExist == "notexist"
KDir == "dir"
KFile == "file"

DirOut == [kind |-> KDir, data |-> EmptyStr, writes |-> 0]

\* a file system without entries, and the record of no call
NoFiles == << >>
NoRes == [op |-> "none"]

IsDirIn(fs, p) == p \in DOMAIN fs /\ fs[p].kind = KDir

\* os.ReadFile(p)
osReadFile(d, p) ==
  IF p \notin DOMAIN d THEN [data |-> EmptyStr, err |-> ErrNotExist]
  ELSE IF d[p].kind = KDir THEN [data |-> EmptyStr, err |-> SomeErr]
  ELSE IF d[p].fail # NoErr THEN [data |-> EmptyStr, err |-> d[p].fail]
  ELSE [data |-> d[p].data, err |-> NoErr]

\* os.Mkdir(p): the directory must be new and its parent must be there
osMkdir(o, p) ==
  IF p \in DOMAIN o \/ ~IsDirIn(o, pathDir(p)) THEN [out |-> o, err |-> SomeErr]
  ELSE [out |-> (p :> DirOut) @@ o, err |-> NoErr]

\* os.Create(p): creates the file or truncates it
osCreate(o, p) ==
  IF IsDirIn(o, p) \/ ~IsDirIn(o, pathDir(p)) THEN [out |-> o, err |-> SomeErr]
  ELSE [out |-> (p :> [kind |-> KFile, data |-> EmptyStr,
                       writes |-> IF p \in DOMAIN o THEN o[p].writes ELSE 0]) @@ o,
        err |-> NoErr]

\* file.Write(data) that returns without error
fileWrite(o, p, data) == [o EXCEPT ![p].data = data, ![p].writes = @ + 1]

\* file.Write(data) that fails after the first byte
fileWriteShort(o, p, data) == [o EXCEPT ![p].data = SubSeq(data, 1, 1)]

\* the nil slice of n.content: no byte string has this value
NilContent == <<256>>

\* n.getContent(): the content set in memory, the file otherwise
getContent(h, d, n) ==
  IF h.content[n] # NilContent THEN [data |-> h.content[n], err |-> NoErr]
  ELSE osReadFile(d, h.path[n])

\* the os.ReadFile calls of one n.getContent(), as the list of the nodes
\* whose file is read
contentReads(h, n) == IF h.content[n] # NilContent THEN << >> ELSE <<n>>

\* the count when a node keeps the bytes of its first read
countReadsFirstOnly(rd, log) ==
  [n \in DOMAIN rd |->
     IF rd[n] = 0 /\ \E i \in 1..Len(log) : log[i] = n THEN 1 ELSE rd[n]]

\* the count of the os.ReadFile calls per node after the calls of log
RECURSIVE countReads(_, _)
countReads(rd, log) ==
  IF log = << >> THEN rd
  ELSE countReads([rd EXCEPT ![Head(log)] = IF @ < MaxReads THEN @ + 1 ELSE @], Tail(log))

\* resizeImg(width, filePath): the file is opened and decoded again; the
\* result depends on the bytes and on the width
resizeImg(d, width, filePath) ==
  LET r == osReadFile(d, filePath) IN
  IF r.err # NoErr THEN r ELSE [data |-> <<width>> \o r.data, err |-> NoErr]

\* ------------------------------------------------------------- image sizes
\* &assetsTreeNodeImgSize{...}
ImgSize(original, width, processed) ==
  [original |-> original, width |-> width, processed |-> processed]

\* n.findOriginalSize(): the index in n.sizes of the first original size, 0
\* for nil
findOriginalSize(h, n) ==
  LET is == {i \in 1..Len(h.sizes[n]) : h.sizes[n][i].original} IN
  IF is = {} THEN 0 ELSE CHOOSE i \in is : \A j \in is : i <= j

RECURSIVE addSizesLoop(_, _, _)

\* the loop without the search for a size of the same width
addSizesLoopNoSearch(szs, originalWidth, widths) ==
  IF widths = << >> THEN szs
  ELSE
    LET width == Head(widths) IN
    IF originalWidth < width THEN szs
    ELSE addSizesLoop(Append(szs, ImgSize(FALSE, width, FALSE)), originalWidth, Tail(widths))

\* the loop that goes on to the next width after one that is too large
addSizesLoopSkipsTooLarge(szs, originalWidth, widths) ==
  IF widths = << >> THEN szs
  ELSE
    LET width == Head(widths) IN
    IF originalWidth < width THEN addSizesLoop(szs, originalWidth, Tail(widths))
    ELSE IF \E i \in 1..Len(szs) : szs[i].width = width THEN szs
    ELSE addSizesLoop(Append(szs, ImgSize(FALSE, width, FALSE)), originalWidth, Tail(widths))

\* the loop of addSizes over widths; both returns end the call
addSizesLoop(szs, originalWidth, widths) ==
  IF widths = << >> THEN szs
  ELSE
    LET width == Head(widths) IN
    IF originalWidth < width THEN szs
    ELSE IF \E i \in 1..Len(szs) : szs[i].width = width THEN szs
    ELSE addSizesLoop(Append(szs, ImgSize(FALSE, width, FALSE)), originalWidth, Tail(widths))

\* n.addSizes(widths...)
addSizes(h, n, widths) ==
  [h EXCEPT !.sizes[n] =
     addSizesLoop(h.sizes[n], h.sizes[n][findOriginalSize(h, n)].width, widths)]

\* n.generateSizeProcessedPath(rel, size)
generateSizeProcessedPath(h, n, rel, size) ==
  pathJoinAll(<<IF rel THEN h.processedRelPath[n] ELSE h.processedPath[n],
                Itoa(size.width) \o filepathExt(h.name[n])>>)

\* what makes a call of the operating system or of the resizer fail: nothing,
\* or one stage of the work on the size of one width
NoFault == [stage |-> "none", width |-> 0]
FaultStages == {"create", "resize", "write"}
Hits(fault, stage, size) == fault.stage = stage /\ fault.width = size.width

RECURSIVE processSizesLoop(_, _, _, _, _, _, _)

\* the loop that writes the file of a processed size again
processSizesLoopWritesAgain(h, o, d, n, i, nodeContent, fault) ==
  IF i > Len(h.sizes[n]) THEN [h |-> h, out |-> o, err |-> NoErr]
  ELSE
    LET size == h.sizes[n][i]
        sizeFilePath == generateSizeProcessedPath(h, n, FALSE, size)
        c == osCreate(o, sizeFilePath)
        rz == IF size.original THEN [data |-> nodeContent, err |-> NoErr]
              ELSE resizeImg(d, size.width, h.path[n])
    IN IF c.err # NoErr \/ rz.err # NoErr THEN [h |-> h, out |-> o, err |-> SomeErr]
       ELSE processSizesLoop([h EXCEPT !.sizes[n][i].processed = TRUE],
                             fileWrite(c.out, sizeFilePath, rz.data),
                             d, n, i + 1, nodeContent, fault)

\* the loop of processSizes over n.sizes, from index i on; the steps on one
\* size are operators on the values of the steps before them
processSizesLoop(h, o, d, n, i, nodeContent, fault) ==
  LET size == h.sizes[n][i]
      written(sizeFilePath, c, rz) ==
        IF rz.err # NoErr THEN [h |-> h, out |-> c.out, err |-> SomeErr]
        ELSE IF Hits(fault, "write", size)
             THEN [h |-> h, out |-> fileWriteShort(c.out, sizeFilePath, rz.data),
                   err |-> SomeErr]
        ELSE processSizesLoop([h EXCEPT !.sizes[n][i].processed = TRUE],
                              fileWrite(c.out, sizeFilePath, rz.data),
                              d, n, i + 1, nodeContent, fault)
      created(sizeFilePath, c) ==
        IF c.err # NoErr THEN [h |-> h, out |-> o, err |-> SomeErr]
        ELSE written(sizeFilePath, c,
                     IF size.original THEN [data |-> nodeContent, err |-> NoErr]
                     ELSE IF Hits(fault, "resize", size)
                          THEN [data |-> EmptyStr, err |-> SomeErr]
                     ELSE resizeImg(d, size.width, h.path[n]))
      at(sizeFilePath) ==
        created(sizeFilePath,
                IF Hits(fault, "create", size) THEN [out |-> o, err |-> SomeErr]
                ELSE osCreate(o, sizeFilePath))
  IN IF i > Len(h.sizes[n]) THEN [h |-> h, out |-> o, err |-> NoErr]
     ELSE IF size.processed THEN processSizesLoop(h, o, d, n, i + 1, nodeContent, fault)
     ELSE at(generateSizeProcessedPath(h, n, FALSE, size))

\* processSizes that goes on without the two tests that panic
processSizesWithoutTests(h, o, d, n, fault) ==
  LET c == getContent(h, d, n) IN
  IF c.err # NoErr THEN [h |-> h, out |-> o, err |-> SomeErr]
  ELSE processSizesLoop(h, o, d, n, 1, c.data, fault)

\* n.processSizes(): it panics on a node that is not an image and on one
\* that process has not given its processedPath
processSizes(h, o, d, n, fault) ==
  LET read(c) ==
        IF c.err # NoErr THEN [h |-> h, out |-> o, err |-> SomeErr]
        ELSE processSizesLoop(h, o, d, n, 1, c.data, fault)
  IN IF h.t[n] # IMGNODE \/ h.processedPath[n] = EmptyStr
     THEN [h |-> h, out |-> o, err |-> PanicErr]
     ELSE read(getContent(h, d, n))

\* "/assets"
AssetsLinkRoot == <<Slash>> \o RootName
\* no size given to assetLink
NoSize == [original |-> FALSE, width |-> 0, processed |-> FALSE]

\* n.assetLink(postSlug, size)
assetLink(h, n, postSlug, size) ==
  LET pre == IF postSlug # EmptyStr THEN <<AssetsLinkRoot, postSlug>>
             ELSE <<AssetsLinkRoot>>
      last == IF size # NoSize THEN generateSizeProcessedPath(h, n, TRUE, size)
              ELSE IF h.t[n] = IMGNODE
                   THEN generateSizeProcessedPath(h, n, TRUE,
                                                  h.sizes[n][findOriginalSize(h, n)])
              ELSE h.processedRelPath[n]
  IN pathJoinAll(Append(pre, last))

\* sort.Slice(sizes, by width): the least width first, then the rest sorted
RECURSIVE sortByWidth(_)
sortByWidth(szs) ==
  IF szs = << >> THEN << >>
  ELSE
    LET m == CHOOSE i \in 1..Len(szs) :
               \A j \in 1..Len(szs) :
                 szs[i].width < szs[j].width \/ (szs[i].width = szs[j].width /\ i <= j)
    IN <<szs[m]>> \o sortByWidth(SubSeq(szs, 1, m - 1) \o SubSeq(szs, m + 1, Len(szs)))

\* the loop of generateSrcSetValue over the sorted sizes; b is the builder
RECURSIVE srcSetLoop(_, _, _, _, _)
srcSetLoop(h, n, postSlug, sorted, b) ==
  IF sorted = << >> THEN b
  ELSE
    LET size == Head(sorted) IN
    IF ~size.processed THEN srcSetLoop(h, n, postSlug, Tail(sorted), b)
    ELSE
      LET b1 == IF Len(b) # 0 THEN b \o <<44, 32>> ELSE b
          link == assetLink(h, n, postSlug, size)
      IN srcSetLoop(h, n, postSlug, Tail(sorted),
                    b1 \o link \o <<32>> \o Itoa(size.width) \o <<119>>)

\* generateSrcSetValue that sorts n.sizes itself instead of a copy
generateSrcSetValueSortsInPlace(h, n, postSlug) ==
  LET sorted == sortByWidth(h.sizes[n]) IN
  [sizes |-> sorted, value |-> srcSetLoop(h, n, postSlug, sorted, EmptyStr)]

\* n.generateSrcSetValue(postSlug): the string, and n.sizes after the call
generateSrcSetValue(h, n, postSlug) ==
  [sizes |-> h.sizes[n],
   value |-> srcSetLoop(h, n, postSlug, sortByWidth(h.sizes[n]), EmptyStr)]

\* ---------------------------------------------------------------- visitors
\* The closures handed to traverse. A visitor is a record; fn applies it to
\* a node and to the accumulator acc = [h, visited, prev] that stands for the
\* variables a closure captures (the tree, a result list, previousNode).
TableFn(tab) == [k |-> "table", tab |-> tab]
BlankPathFn == [k |-> "blankPath"]
FindPreviousFn(n, cname) == [k |-> "findPrevious", n |-> n, cname |-> cname]
SetPathFn == [k |-> "setPath"]

Result(status, err, acc) == [status |-> status, err |-> err, acc |-> acc]

\* closure of the tests: records the visit and answers from a table
tableVisit(v, n, acc) ==
  Result(v.tab[n].status, v.tab[n].err,
         [acc EXCEPT !.visited = Append(acc.visited, n)])

\* closure of removeFromTree
blankPathVisit(n, acc) ==
  Result(next, NoErr, [acc EXCEPT !.h.path[n] = EmptyStr])

\* closure of addChild that looks for the node to insert after
findPreviousVisit(v, n2, acc) ==
  IF n2 = v.n THEN Result(next, NoErr, acc)
  ELSE IF Less(v.cname, acc.h.name[n2]) THEN Result(terminate, NoErr, acc)
  ELSE LET acc2 == [acc EXCEPT !.prev = n2] IN
       IF acc.h.t[n2] = DIRNODE THEN Result(skipChildren, NoErr, acc2)
       ELSE Result(next, NoErr, acc2)

\* closure of addChild that recomputes the paths
setPathVisit(n, acc) ==
  Result(next, NoErr,
         [acc EXCEPT !.h.path[n] = pathJoin(acc.h.path[acc.h.parent[n]], acc.h.name[n])])

\* closure of process: n is the node process is called on, d the input
\* file system; the output file system is part of the accumulator
ProcessFn(n, outDirPath, processRoot, d, fault) ==
  [k |-> "process", n |-> n, outDirPath |-> outDirPath, processRoot |-> processRoot,
   d |-> d, fault |-> fault]

\* the closure that puts the digest after the extension of a file
processVisitHashAfterExt(v, n2, captured) ==
  LET \* the closure reaches n.getContent() on every file and image it works on
      acc == IF (n2 = v.n /\ ~v.processRoot) \/ captured.h.t[n2] = DIRNODE THEN captured
             ELSE [captured EXCEPT !.reads = @ \o contentReads(captured.h, n2)]
      processed(rel, abs, o) ==
        Result(next, NoErr, [acc EXCEPT !.out = o,
                                        !.h.processedRelPath[n2] = rel,
                                        !.h.processedPath[n2] = abs])
      \* a directory: os.Mkdir of its output path
      dirMade(rel, abs, m) ==
        IF m.err # NoErr THEN Result(terminate, m.err, acc)
        ELSE processed(rel, abs, m.out)
      dirAt(rel, abs) == dirMade(rel, abs, osMkdir(acc.out, abs))
      \* a file: os.Create of the output path named by the digest and Write
      fileMade(rel, abs, data, c) ==
        IF c.err # NoErr THEN Result(terminate, c.err, acc)
        ELSE processed(rel, abs, fileWrite(c.out, abs, data))
      fileAt(rel, abs, data) == fileMade(rel, abs, data, osCreate(acc.out, abs))
      fileNamed(rel, data) == fileAt(rel, pathJoinAll(<<v.outDirPath, rel>>), data)
      fileHashed(pathWithoutRoot, ext, md5Hash, data) ==
        fileNamed(pathWithoutRoot \o <<45>> \o md5Hash, data)
      fileRead(pathWithoutRoot, nodeContent) ==
        IF nodeContent.err # NoErr THEN Result(terminate, nodeContent.err, acc)
        ELSE fileHashed(pathWithoutRoot, filepathExt(pathWithoutRoot),
                        hexEncodeToString(md5Sum(nodeContent.data)), nodeContent.data)
      \* an image: os.Mkdir of the directory named by the digest, processSizes
      imgSized(ps) ==
        Result(IF ps.err # NoErr THEN terminate ELSE next, ps.err,
               [acc EXCEPT !.h = ps.h, !.out = ps.out,
                           !.reads = @ \o contentReads(acc.h, n2)])
      imgMade(rel, abs, m) ==
        IF m.err # NoErr THEN Result(terminate, SomeErr, acc)
        ELSE imgSized(processSizes([acc.h EXCEPT !.processedRelPath[n2] = rel,
                                                 !.processedPath[n2] = abs],
                                   m.out, v.d, n2, v.fault))
      imgAt(rel, abs) == imgMade(rel, abs, osMkdir(acc.out, abs))
      imgNamed(rel) == imgAt(rel, pathJoinAll(<<v.outDirPath, rel>>))
      imgRead(pathWithoutRoot, nodeContent) ==
        IF nodeContent.err # NoErr THEN Result(terminate, nodeContent.err, acc)
        ELSE imgNamed(pathJoinAll(<<pathWithoutRoot, DotDot,
                                    hexEncodeToString(md5Sum(nodeContent.data))>>))
      node(pathWithoutRoot) ==
        IF acc.h.t[n2] = IMGNODE
        THEN imgRead(pathWithoutRoot, getContent(acc.h, v.d, n2))
        ELSE IF acc.h.t[n2] = FILENODE
        THEN fileRead(pathWithoutRoot, getContent(acc.h, v.d, n2))
        ELSE dirAt(pathWithoutRoot, pathJoinAll(<<v.outDirPath, pathWithoutRoot>>))
  IN IF n2 = v.n /\ ~v.processRoot THEN Result(next, NoErr, acc)
     ELSE node(TrimPrefix(acc.h.path[n2], acc.h.path[v.n] \o <<Slash>>))

\* the closure of process, step by step: each step is an operator on the
\* values of the steps before it
processVisit(v, n2, captured) ==
  LET \* the closure reaches n.getContent() on every file and image it works on
      acc == IF (n2 = v.n /\ ~v.processRoot) \/ captured.h.t[n2] = DIRNODE THEN captured
             ELSE [captured EXCEPT !.reads = @ \o contentReads(captured.h, n2)]
      processed(rel, abs, o) ==
        Result(next, NoErr, [acc EXCEPT !.out = o,
                                        !.h.processedRelPath[n2] = rel,
                                        !.h.processedPath[n2] = abs])
      \* a directory: os.Mkdir of its output path
      dirMade(rel, abs, m) ==
        IF m.err # NoErr THEN Result(terminate, m.err, acc)
        ELSE processed(rel, abs, m.out)
      dirAt(rel, abs) == dirMade(rel, abs, osMkdir(acc.out, abs))
      \* a file: os.Create of the output path named by the digest and Write
      fileMade(rel, abs, data, c) ==
        IF c.err # NoErr THEN Result(terminate, c.err, acc)
        ELSE processed(rel, abs, fileWrite(c.out, abs, data))
      fileAt(rel, abs, data) == fileMade(rel, abs, data, osCreate(acc.out, abs))
      fileNamed(rel, data) == fileAt(rel, pathJoinAll(<<v.outDirPath, rel>>), data)
      fileHashed(pathWithoutRoot, ext, md5Hash, data) ==
        fileNamed(TrimSuffix(pathWithoutRoot, ext) \o <<45>> \o md5Hash \o ext, data)
      fileRead(pathWithoutRoot, nodeContent) ==
        IF nodeContent.err # NoErr THEN Result(terminate, nodeContent.err, acc)
        ELSE fileHashed(pathWithoutRoot, filepathExt(pathWithoutRoot),
                        hexEncodeToString(md5Sum(nodeContent.data)), nodeContent.data)
      \* an image: os.Mkdir of the directory named by the digest, processSizes
      imgSized(ps) ==
        Result(IF ps.err # NoErr THEN terminate ELSE next, ps.err,
               [acc EXCEPT !.h = ps.h, !.out = ps.out,
                           !.reads = @ \o contentReads(acc.h, n2)])
      imgMade(rel, abs, m) ==
        IF m.err # NoErr THEN Result(terminate, SomeErr, acc)
        ELSE imgSized(processSizes([acc.h EXCEPT !.processedRelPath[n2] = rel,
                                                 !.processedPath[n2] = abs],
                                   m.out, v.d, n2, v.fault))
      imgAt(rel, abs) == imgMade(rel, abs, osMkdir(acc.out, abs))
      imgNamed(rel) == imgAt(rel, pathJoinAll(<<v.outDirPath, rel>>))
      imgRead(pathWithoutRoot, nodeContent) ==
        IF nodeContent.err # NoErr THEN Result(terminate, nodeContent.err, acc)
        ELSE imgNamed(pathJoinAll(<<pathWithoutRoot, DotDot,
                                    hexEncodeToString(md5Sum(nodeContent.data))>>))
      node(pathWithoutRoot) ==
        IF acc.h.t[n2] = IMGNODE
        THEN imgRead(pathWithoutRoot, getContent(acc.h, v.d, n2))
        ELSE IF acc.h.t[n2] = FILENODE
        THEN fileRead(pathWithoutRoot, getContent(acc.h, v.d, n2))
        ELSE dirAt(pathWithoutRoot, pathJoinAll(<<v.outDirPath, pathWithoutRoot>>))
  IN IF n2 = v.n /\ ~v.processRoot THEN Result(next, NoErr, acc)
     ELSE node(TrimPrefix(acc.h.path[n2], acc.h.path[v.n] \o <<Slash>>))

\* cssFilenameRegExp.MatchString(s) for `^.*\.css$` and a name of one line
cssFilenameMatch(s) == HasSuffix(s, <<46, 99, 115, 115>>)

RECURSIVE removeFromTree(_, _)

\* closure of processCSSFileNodes: n is the node it is called on, buf of the
\* accumulator is cssContent
CSSFn(n, d) == [k |-> "css", n |-> n, d |-> d]

\* the closure without the return of skipChildren for a directory
cssVisitWalksDirectories(v, n2, captured) ==
  LET acc == [captured EXCEPT !.visited = Append(@, n2)] IN
  IF n2 = v.n THEN Result(next, NoErr, acc)
  ELSE IF acc.h.t[n2] # DIRNODE /\ cssFilenameMatch(acc.h.name[n2]) THEN
    LET cssFileContent == getContent(acc.h, v.d, n2) IN
    IF cssFileContent.err # NoErr THEN Result(terminate, cssFileContent.err, acc)
    ELSE Result(next, NoErr,
           [acc EXCEPT !.buf = @ \o cssFileContent.data,
                       !.h = removeFromTree(acc.h, n2)])
  ELSE Result(next, NoErr, acc)

cssVisit(v, n2, captured) ==
  LET acc == [captured EXCEPT !.visited = Append(@, n2)] IN
  IF n2 = v.n THEN Result(next, NoErr, acc)
  ELSE IF acc.h.t[n2] = DIRNODE THEN Result(skipChildren, NoErr, acc)
  ELSE IF cssFilenameMatch(acc.h.name[n2]) THEN
    LET cssFileContent == getContent(acc.h, v.d, n2) IN
    IF cssFileContent.err # NoErr
    THEN Result(terminate, cssFileContent.err,
                [acc EXCEPT !.reads = @ \o contentReads(acc.h, n2)])
    ELSE Result(next, NoErr,
           [acc EXCEPT !.buf = @ \o cssFileContent.data,
                       !.reads = @ \o contentReads(acc.h, n2),
                       !.h = removeFromTree(acc.h, n2)])
  ELSE Result(next, NoErr, acc)

fn(v, n, acc) ==
  CASE v.k = "table" -> tableVisit(v, n, acc)
    [] v.k = "blankPath" -> blankPathVisit(n, acc)
    [] v.k = "findPrevious" -> findPreviousVisit(v, n, acc)
    [] v.k = "setPath" -> setPathVisit(n, acc)
    [] v.k = "process" -> processVisit(v, n, acc)
    [] v.k = "css" -> cssVisit(v, n, acc)

\* --------------------------------------------------------------- traversal
RECURSIVE traverseRec(_, _, _), traverseChildren(_, _, _)

\* the loop that visits a directory child without walking into it
traverseChildrenNoDescent(c, v, acc) ==
  IF c = NIL THEN Result(next, NoErr, acc)
  ELSE
    LET cNext == acc.h.next[c]
        r == fn(v, c, acc)
    IN IF r.err # NoErr THEN Result(terminate, r.err, r.acc)
       ELSE IF r.status = skipChildren /\ acc.h.t[c] # DIRNODE
            THEN Result(skipChildren, NoErr, r.acc)
       ELSE IF r.status = terminate THEN Result(terminate, NoErr, r.acc)
       ELSE traverseChildren(cNext, v, r.acc)

\* the loop that looks at the status of a leaf only, losing its error
traverseChildrenDropsLeafErr(c, v, acc) ==
  IF c = NIL THEN Result(next, NoErr, acc)
  ELSE
    LET cNext == acc.h.next[c] IN
    IF acc.h.t[c] = DIRNODE THEN
      LET r == traverseRec(c, v, acc) IN
      IF r.err # NoErr \/ r.status = terminate
      THEN Result(terminate, r.err, r.acc)
      ELSE traverseChildren(cNext, v, r.acc)
    ELSE
      LET r == fn(v, c, acc) IN
      IF r.status = skipChildren THEN Result(skipChildren, NoErr, r.acc)
      ELSE IF r.status = terminate THEN Result(terminate, NoErr, r.acc)
      ELSE traverseChildren(cNext, v, r.acc)

\* the loop with one rule for both kinds: skipChildren of a directory child
\* ends the level as the one of a leaf does
traverseChildrenDirSkipEndsLevel(c, v, acc) ==
  IF c = NIL THEN Result(next, NoErr, acc)
  ELSE
    LET cNext == acc.h.next[c]
        r == IF acc.h.t[c] = DIRNODE THEN traverseRec(c, v, acc) ELSE fn(v, c, acc)
    IN IF r.err # NoErr \/ r.status = terminate THEN Result(terminate, r.err, r.acc)
       ELSE IF r.status = skipChildren THEN Result(skipChildren, NoErr, r.acc)
       ELSE traverseChildren(cNext, v, r.acc)

\* the loop with the other uniform rule: skipChildren of a leaf is ignored
traverseChildrenLeafSkipGoesOn(c, v, acc) ==
  IF c = NIL THEN Result(next, NoErr, acc)
  ELSE
    LET cNext == acc.h.next[c]
        r == IF acc.h.t[c] = DIRNODE THEN traverseRec(c, v, acc) ELSE fn(v, c, acc)
    IN IF r.err # NoErr \/ r.status = terminate THEN Result(terminate, r.err, r.acc)
       ELSE traverseChildren(cNext, v, r.acc)

\* the loop that goes on with the next child after an error and returns the
\* error at the end
traverseChildrenGoesOnAfterErr(c, v, acc) ==
  IF c = NIL THEN Result(next, NoErr, acc)
  ELSE
    LET cNext == acc.h.next[c]
        r == IF acc.h.t[c] = DIRNODE THEN traverseRec(c, v, acc) ELSE fn(v, c, acc)
    IN IF r.err # NoErr
       THEN Result(terminate, r.err, traverseChildren(cNext, v, r.acc).acc)
       ELSE IF r.status = terminate THEN Result(terminate, NoErr, r.acc)
       ELSE IF r.status = skipChildren /\ acc.h.t[c] # DIRNODE
            THEN Result(skipChildren, NoErr, r.acc)
       ELSE traverseChildren(cNext, v, r.acc)

\* the loop that reads c.next after the visit of c
traverseChildrenNextAfterVisit(c, v, acc) ==
  IF c = NIL THEN Result(next, NoErr, acc)
  ELSE IF acc.h.t[c] = DIRNODE THEN
    LET r == traverseRec(c, v, acc) IN
    IF r.err # NoErr \/ r.status = terminate THEN Result(terminate, r.err, r.acc)
    ELSE traverseChildren(r.acc.h.next[c], v, r.acc)
  ELSE
    LET r == fn(v, c, acc) IN
    IF r.err # NoErr THEN Result(terminate, r.err, r.acc)
    ELSE IF r.status = skipChildren THEN Result(skipChildren, NoErr, r.acc)
    ELSE IF r.status = terminate THEN Result(terminate, NoErr, r.acc)
    ELSE traverseChildren(r.acc.h.next[c], v, r.acc)

\* the loop over the children of traverseRec, from child c on; walked and
\* visited are the code after the recursive call and after fn(c)
traverseChildren(c, v, acc) ==
  LET cNext == acc.h.next[c]
      walked(r) ==
        IF r.err # NoErr \/ r.status = terminate
        THEN Result(terminate, r.err, r.acc)
        ELSE traverseChildren(cNext, v, r.acc)
      visited(r) ==
        IF r.err # NoErr THEN Result(terminate, r.err, r.acc)
        ELSE IF r.status = skipChildren THEN Result(skipChildren, NoErr, r.acc)
        ELSE IF r.status = terminate THEN Result(terminate, NoErr, r.acc)
        ELSE traverseChildren(cNext, v, r.acc)
  IN IF c = NIL THEN Result(next, NoErr, acc)
     ELSE IF acc.h.t[c] = DIRNODE THEN walked(traverseRec(c, v, acc))
     ELSE visited(fn(v, c, acc))

traverseRec(n, v, acc) ==
  LET visited(r) ==
        IF r.err # NoErr \/ r.status = terminate THEN Result(terminate, r.err, r.acc)
        ELSE IF r.status = skipChildren THEN Result(skipChildren, NoErr, r.acc)
        ELSE traverseChildren(r.acc.h.firstChild[n], v, r.acc)
  IN visited(fn(v, n, acc))

\* traverse drops the status and keeps the error
traverse(n, v, acc) ==
  LET walked(r) == [err |-> r.err, acc |-> r.acc] IN walked(traverseRec(n, v, acc))

Acc(h) == [h |-> h, visited |-> << >>, prev |-> NIL]

\* the captured variables of process and processCSSFileNodes: the tree, the
\* output file system and cssContent; reads lists the os.ReadFile calls of
\* the content queries
AccOut(h, o) ==
  [h |-> h, visited |-> << >>, prev |-> NIL, out |-> o, buf |-> EmptyStr, reads |-> << >>]

\* ---------------------------------------------------------------- mutation
\* removeFromTree that forgets to clear the previous link of the new first child
removeFromTreeKeepsPrevious(h, n) ==
  IF h.parent[n] = NIL THEN h
  ELSE
    LET p == h.parent[n]
        pv == h.previous[n]
        nx == h.next[n]
        h1 == IF pv = NIL
              THEN [h EXCEPT !.firstChild[p] = nx]
              ELSE IF nx # NIL
                   THEN [h EXCEPT !.next[pv] = nx, !.previous[nx] = pv]
                   ELSE [h EXCEPT !.next[pv] = nx]
        h2 == IF h1.t[n] = DIRNODE
              THEN traverse(n, BlankPathFn, Acc(h1)).acc.h
              ELSE h1
    IN [h2 EXCEPT !.parent[n] = NIL, !.previous[n] = NIL,
                  !.next[n] = NIL, !.path[n] = EmptyStr]

\* removeFromTree that cuts the sibling chain at the removed node
removeFromTreeCutsChain(h, n) ==
  IF h.parent[n] = NIL THEN h
  ELSE
    LET p == h.parent[n]
        pv == h.previous[n]
        nx == h.next[n]
        h1 == IF pv = NIL
              THEN IF nx # NIL
                   THEN [h EXCEPT !.firstChild[p] = nx, !.previous[nx] = NIL]
                   ELSE [h EXCEPT !.firstChild[p] = NIL]
              ELSE [h EXCEPT !.next[pv] = NIL]
        h2 == IF h1.t[n] = DIRNODE
              THEN traverse(n, BlankPathFn, Acc(h1)).acc.h
              ELSE h1
    IN [h2 EXCEPT !.parent[n] = NIL, !.previous[n] = NIL,
                  !.next[n] = NIL, !.path[n] = EmptyStr]

\* removeFromTree that blanks the path of the removed node only
removeFromTreeBlanksSelfOnly(h, n) ==
  IF h.parent[n] = NIL THEN h
  ELSE
    LET p == h.parent[n]
        pv == h.previous[n]
        nx == h.next[n]
        h1 == IF pv = NIL
              THEN IF nx # NIL
                   THEN [h EXCEPT !.firstChild[p] = nx, !.previous[nx] = NIL]
                   ELSE [h EXCEPT !.firstChild[p] = NIL]
              ELSE IF nx # NIL
                   THEN [h EXCEPT !.next[pv] = nx, !.previous[nx] = pv]
                   ELSE [h EXCEPT !.next[pv] = nx]
    IN [h1 EXCEPT !.parent[n] = NIL, !.previous[n] = NIL,
                  !.next[n] = NIL, !.path[n] = EmptyStr]

removeFromTree(h, n) ==
  IF h.parent[n] = NIL THEN h
  ELSE
    LET p == h.parent[n]
        pv == h.previous[n]
        nx == h.next[n]
        h1 == IF pv = NIL
              THEN IF nx # NIL
                   THEN [h EXCEPT !.firstChild[p] = nx, !.previous[nx] = NIL]
                   ELSE [h EXCEPT !.firstChild[p] = NIL]
              ELSE IF nx # NIL
                   THEN [h EXCEPT !.next[pv] = nx, !.previous[nx] = pv]
                   ELSE [h EXCEPT !.next[pv] = nx]
        h2 == IF h1.t[n] = DIRNODE
              THEN traverse(n, BlankPathFn, Acc(h1)).acc.h
              ELSE h1
    IN [h2 EXCEPT !.parent[n] = NIL, !.previous[n] = NIL,
                  !.next[n] = NIL, !.path[n] = EmptyStr]

\* addChild that gives the child its name as its path
addChildPathIsName(h, n, c, ty, nm) ==
  LET h0 == [h EXCEPT !.t[c] = ty, !.name[c] = nm, !.parent[c] = n,
                      !.path[c] = nm,
                      !.firstChild[c] = NIL, !.next[c] = NIL, !.previous[c] = NIL]
      inserted(previousNode) ==
        IF previousNode = NIL
        THEN [h0 EXCEPT !.previous[h0.firstChild[n]] = c,
                        !.next[c] = h0.firstChild[n],
                        !.firstChild[n] = c]
        ELSE
          LET pn == h0.next[previousNode] IN
          IF pn # NIL
          THEN [h0 EXCEPT !.previous[c] = previousNode, !.next[c] = pn,
                          !.previous[pn] = c, !.next[previousNode] = c]
          ELSE [h0 EXCEPT !.previous[c] = previousNode, !.next[c] = pn,
                          !.next[previousNode] = c]
  IN IF h0.firstChild[n] = NIL
     THEN [h0 EXCEPT !.firstChild[n] = c]
     ELSE inserted(traverse(n, FindPreviousFn(n, nm), Acc(h0)).acc.prev)

\* addChild(t, name) called on n; c is the freshly allocated node
addChild(h, n, c, ty, nm) ==
  LET h0 == [h EXCEPT !.t[c] = ty, !.name[c] = nm, !.parent[c] = n,
                      !.path[c] = pathJoin(h.path[n], nm),
                      !.firstChild[c] = NIL, !.next[c] = NIL, !.previous[c] = NIL]
      inserted(previousNode) ==
        IF previousNode = NIL
        THEN [h0 EXCEPT !.previous[h0.firstChild[n]] = c,
                        !.next[c] = h0.firstChild[n],
                        !.firstChild[n] = c]
        ELSE
          LET pn == h0.next[previousNode] IN
          IF pn # NIL
          THEN [h0 EXCEPT !.previous[c] = previousNode, !.next[c] = pn,
                          !.previous[pn] = c, !.next[previousNode] = c]
          ELSE [h0 EXCEPT !.previous[c] = previousNode, !.next[c] = pn,
                          !.next[previousNode] = c]
      h1 == IF h0.firstChild[n] = NIL
            THEN [h0 EXCEPT !.firstChild[n] = c]
            ELSE inserted(traverse(n, FindPreviousFn(n, nm), Acc(h0)).acc.prev)
  IN traverse(c, SetPathFn, Acc(h1)).acc.h

\* n.process(outDirPath, processRoot): the tree, the output file system and
\* the error it returns
process(h, o, d, n, outDirPath, processRoot, fault) ==
  LET walked(r) == [h |-> r.acc.h, out |-> r.acc.out, err |-> r.err, reads |-> r.acc.reads] IN
  walked(traverse(n, ProcessFn(n, outDirPath, processRoot, d, fault), AccOut(h, o)))

\* m.Bytes("text/css", cssContent) of the minify library: here the bytes
\* without the spaces
minify(bs) == SelectSeq(bs, LAMBDA b : b # 32)

\* "style.css"
StyleCSS == <<115, 116, 121, 108, 101, 46, 99, 115, 115>>

\* n.setContent(content) on a file node
setContent(h, n, bytes) == [h EXCEPT !.content[n] = bytes]

\* n.processCSSFileNodes(); c is the node that addChild allocates
processCSSFileNodes(h, d, n, c) ==
  LET walked(r) ==
        IF r.err # NoErr
        THEN [h |-> r.acc.h, err |-> r.err, added |-> FALSE, reads |-> r.acc.reads,
              visited |-> r.acc.visited]
        ELSE [h |-> setContent(addChild(r.acc.h, n, c, FILENODE, StyleCSS), c,
                               minify(r.acc.buf)),
              err |-> NoErr, added |-> TRUE, reads |-> r.acc.reads,
              visited |-> r.acc.visited]
  IN walked(traverse(n, CSSFn(n, d), AccOut(h, NoFiles)))

\* --------------------------------------------------------------- ingestion
\* defaultIgnoreRegexps: `\.gitkeep`; a regexp without operators matches the
\* names that contain it
GitKeep == <<46, 103, 105, 116, 107, 101, 101, 112>>
defaultIgnoreRegexps == {GitKeep}

\* imgNodeNameRegExp.MatchString(s) for `.+\.(jpg|jpeg|png)`: one of the
\* three extensions somewhere after the first byte
ImgExts == {<<46, 106, 112, 103>>, <<46, 106, 112, 101, 103>>, <<46, 112, 110, 103>>}
imgNodeNameMatch(s) ==
  \E e \in ImgExts : \E i \in 1..(Len(s) - Len(e)) : SubSeq(s, i + 1, i + Len(e)) = e

\* the paths of set ps in ascending order of file name
RECURSIVE sortByName(_)
sortByName(ps) ==
  IF ps = {} THEN << >>
  ELSE
    LET m == CHOOSE q \in ps : \A q2 \in ps : ~StrLess(pathBase(q2), pathBase(q)) IN
    <<m>> \o sortByName(ps \ {m})

\* os.ReadDir(p): the entries of the directory sorted by file name
osReadDir(d, p) ==
  IF p \notin DOMAIN d THEN [fileInfos |-> << >>, err |-> ErrNotExist]
  ELSE IF d[p].kind # KDir THEN [fileInfos |-> << >>, err |-> SomeErr]
  ELSE IF d[p].fail # NoErr THEN [fileInfos |-> << >>, err |-> d[p].fail]
  ELSE [fileInfos |-> sortByName({q \in DOMAIN d : q # p /\ pathDir(q) = p}),
        err |-> NoErr]

\* imgDimensions(filePath): os.Open and image.DecodeConfig
imgDimensions(d, filePath) ==
  IF filePath \notin DOMAIN d THEN [width |-> -1, err |-> ErrNotExist]
  ELSE IF d[filePath].fail # NoErr THEN [width |-> -1, err |-> d[filePath].fail]
  ELSE IF d[filePath].kind = KDir THEN [width |-> -1, err |-> SomeErr]
  ELSE [width |-> d[filePath].width, err |-> NoErr]

\* a node as the composite literals of generateAssetsTreeRec make it
NewNode(h, node, ty, nm, pth, szs) ==
  [h EXCEPT !.t[node] = ty, !.name[node] = nm, !.path[node] = pth, !.sizes[node] = szs]

RECURSIVE generateAssetsTreeRec(_, _, _, _, _), fileInfosLoop(_, _, _, _, _, _, _)

\* the loop of generateAssetsTreeRec over the entries; na is the number of
\* nodes allocated so far, a file info is the path of its entry
fileInfosLoop(h, na, d, rootNode, ignoreRegexps, fileInfos, lastNode) ==
  IF fileInfos = << >> THEN [h |-> h, na |-> na, err |-> NoErr]
  ELSE
    LET fileInfo == Head(fileInfos)
        nodeName == pathBase(fileInfo)
        isDir == d[fileInfo].kind = KDir
        nodeNameToMatch == IF isDir THEN nodeName \o <<Slash>> ELSE nodeName
    IN
    IF \E rx \in defaultIgnoreRegexps \cup ignoreRegexps : Contains(nodeNameToMatch, rx)
    THEN fileInfosLoop(h, na, d, rootNode, ignoreRegexps, Tail(fileInfos), lastNode)
    ELSE
      LET node == na + 1
          nodePath == pathJoinAll(<<h.path[rootNode], nodeName>>)
          made ==
            IF imgNodeNameMatch(nodeName) THEN
              LET dim == imgDimensions(d, nodePath) IN
              IF dim.err # NoErr THEN [h |-> h, na |-> na, err |-> dim.err]
              ELSE [h |-> NewNode(h, node, IMGNODE, nodeName, nodePath,
                                  <<ImgSize(TRUE, dim.width, FALSE)>>),
                    na |-> na + 1, err |-> NoErr]
            ELSE IF isDir THEN
              generateAssetsTreeRec(NewNode(h, node, DIRNODE, nodeName, nodePath, << >>),
                                    na + 1, d, node, ignoreRegexps)
            ELSE [h |-> NewNode(h, node, FILENODE, nodeName, nodePath, << >>),
                  na |-> na + 1, err |-> NoErr]
      IN
      IF made.err # NoErr THEN made
      ELSE
        LET h1 == [made.h EXCEPT !.parent[node] = rootNode]
            h2 == IF lastNode = NIL THEN [h1 EXCEPT !.firstChild[rootNode] = node]
                  ELSE [h1 EXCEPT !.next[lastNode] = node, !.previous[node] = lastNode]
        IN fileInfosLoop(h2, made.na, d, rootNode, ignoreRegexps, Tail(fileInfos), node)

generateAssetsTreeRec(h, na, d, rootNode, ignoreRegexps) ==
  LET r == osReadDir(d, h.path[rootNode]) IN
  IF r.err # NoErr THEN [h |-> h, na |-> na, err |-> r.err]
  ELSE fileInfosLoop(h, na, d, rootNode, ignoreRegexps, r.fileInfos, NIL)

\* generateAssetsTree that returns every error of generateAssetsTreeRec
generateAssetsTreeReturnsEveryError(h, na, d, assetsPath, ignoreRegexps) ==
  LET rootNode == na + 1
      r == generateAssetsTreeRec(
             NewNode(h, rootNode, DIRNODE, RootName, pathClean(assetsPath), << >>),
             na + 1, d, rootNode, ignoreRegexps)
  IN IF r.err # NoErr THEN [h |-> h, na |-> na, root |-> NIL, err |-> r.err]
     ELSE [h |-> r.h, na |-> r.na, root |-> rootNode, err |-> NoErr]

\* generateAssetsTree(assetsPath, ignoreRegexps): the root it returns (NIL
\* for nil) and the error; the nodes of a tree that is not returned are
\* garbage and leave the heap as it was
generateAssetsTree(h, na, d, assetsPath, ignoreRegexps) ==
  LET rootNode == na + 1
      r == generateAssetsTreeRec(
             NewNode(h, rootNode, DIRNODE, RootName, pathClean(assetsPath), << >>),
             na + 1, d, rootNode, ignoreRegexps)
  IN IF r.err # NoErr /\ r.err # ErrNotExist
     THEN [h |-> h, na |-> na, root |-> NIL, err |-> r.err]
     ELSE [h |-> r.h, na |-> r.na, root |-> rootNode, err |-> NoErr]

\* ---------------------------------------------------------- finding a node
RECURSIVE findByRelPathLoop(_, _, _, _)

\* the loop that goes down a level without moving on to the next segment
findByRelPathLoopKeepsSegment(h, segments, n2, i) ==
  IF i + 1 > Len(segments) \/ n2 = NIL THEN NIL
  ELSE IF h.name[n2] = segments[i + 1]
       THEN IF i + 1 = Len(segments) THEN n2
            ELSE findByRelPathLoop(h, segments, h.firstChild[n2], i)
       ELSE findByRelPathLoop(h, segments, h.next[n2], i)

\* the for loop of findByRelPath; i counts from 0 as in the code
findByRelPathLoop(h, segments, n2, i) ==
  IF i + 1 > Len(segments) \/ n2 = NIL THEN NIL
  ELSE IF h.name[n2] = segments[i + 1]
       THEN IF i + 1 = Len(segments) THEN n2
            ELSE findByRelPathLoop(h, segments, h.firstChild[n2], i + 1)
       ELSE findByRelPathLoop(h, segments, h.next[n2], i)

findByRelPath(h, n, relPath) ==
  findByRelPathLoop(h, Split(relPath), h.firstChild[n], 0)

\* the lookup that tries the other tree after a miss
findByRelPathInGATOrPATFallsBack(h, gat, pat, relPath) ==
  IF Len(relPath) = 0 THEN [n |-> NIL, searchedInPAT |-> FALSE]
  ELSE
    LET inGAT == IF gat = NIL THEN NIL
                 ELSE findByRelPath(h, gat, TrimPrefixSlash(relPath))
        inPAT == IF pat = NIL THEN NIL ELSE findByRelPath(h, pat, relPath)
    IN IF relPath[1] = Slash
       THEN [n |-> IF inGAT # NIL THEN inGAT ELSE inPAT, searchedInPAT |-> FALSE]
       ELSE [n |-> IF inPAT # NIL THEN inPAT ELSE inGAT, searchedInPAT |-> TRUE]

\* the lookup that reports the tree of the post only when that tree is there
findByRelPathInGATOrPATFlagsTreeThere(h, gat, pat, relPath) ==
  IF Len(relPath) = 0 THEN [n |-> NIL, searchedInPAT |-> FALSE]
  ELSE IF relPath[1] = Slash
       THEN IF gat = NIL THEN [n |-> NIL, searchedInPAT |-> FALSE]
            ELSE [n |-> findByRelPath(h, gat, TrimPrefixSlash(relPath)),
                  searchedInPAT |-> FALSE]
       ELSE IF pat = NIL THEN [n |-> NIL, searchedInPAT |-> FALSE]
            ELSE [n |-> findByRelPath(h, pat, relPath), searchedInPAT |-> TRUE]

findByRelPathInGATOrPAT(h, gat, pat, relPath) ==
  IF Len(relPath) = 0 THEN [n |-> NIL, searchedInPAT |-> FALSE]
  ELSE IF relPath[1] = Slash
       THEN IF gat = NIL THEN [n |-> NIL, searchedInPAT |-> FALSE]
            ELSE [n |-> findByRelPath(h, gat, TrimPrefixSlash(relPath)),
                  searchedInPAT |-> FALSE]
       ELSE IF pat = NIL THEN [n |-> NIL, searchedInPAT |-> TRUE]
            ELSE [n |-> findByRelPath(h, pat, relPath), searchedInPAT |-> TRUE]

\* ------------------------------------------------------------------ states
NoOp == [op |-> "none", node |-> NIL, hadParent |-> FALSE, hadPrev |-> FALSE, hadNext |-> FALSE]
\* what a visitor returns: a status and an error
Outcomes == [status : Statuses, err : {NoErr, SomeErr}]
Continue == [status |-> next, err |-> NoErr]
SkipOutcome == [status |-> skipChildren, err |-> NoErr]

NoTr == [start |-> NIL, tab |-> [i \in NodeIds |-> Continue], visited |-> << >>, err |-> NoErr]
NoFound == [op |-> "none", gat |-> NIL, pat |-> NIL, relPath |-> EmptyStr,
            n |-> NIL, searchedInPAT |-> FALSE]

SetHeap(h) ==
  /\ t' = h.t
  /\ name' = h.name
  /\ path' = h.path
  /\ parent' = h.parent
  /\ firstChild' = h.firstChild
  /\ nextSib' = h.next
  /\ previous' = h.previous
  /\ content' = h.content
  /\ sizes' = h.sizes
  /\ processedPath' = h.processedPath
  /\ processedRelPath' = h.processedRelPath

\* the tree returned by generateAssetsTree for an empty or missing directory
Init ==
  /\ t = [i \in NodeIds |-> IF i = 1 THEN DIRNODE ELSE FILENODE]
  /\ name = [i \in NodeIds |-> IF i = 1 THEN RootName ELSE EmptyStr]
  /\ path = [i \in NodeIds |-> IF i = 1 THEN RootPath ELSE EmptyStr]
  /\ parent = [i \in NodeIds |-> NIL]
  /\ firstChild = [i \in NodeIds |-> NIL]
  /\ nextSib = [i \in NodeIds |-> NIL]
  /\ previous = [i \in NodeIds |-> NIL]
  /\ nAlloc = 1
  /\ roots = {1}
  /\ lastOp = NoOp
  /\ tr = NoTr
  /\ found = NoFound
  /\ content = [i \in NodeIds |-> NilContent]
  /\ sizes = [i \in NodeIds |-> << >>]
  /\ processedPath = [i \in NodeIds |-> EmptyStr]
  /\ processedRelPath = [i \in NodeIds |-> EmptyStr]
  /\ disk = NoFiles
  /\ out = NoFiles
  /\ res = NoRes
  /\ reads = [i \in NodeIds |-> 0]

Allocated == 1..nAlloc

\* n.addChild(ty, nm); every call site of the repository calls it on a
\* directory (the tree root in Build and processCSSFileNodes, directories in
\* the tests)
AddChild(n, ty, nm) ==
  /\ nAlloc < MaxNodes
  /\ n \in Allocated
  /\ t[n] = DIRNODE
  /\ SetHeap(addChild(Heap, n, nAlloc + 1, ty, nm))
  /\ nAlloc' = nAlloc + 1
  /\ lastOp' = [NoOp EXCEPT !.op = "addChild", !.node = nAlloc + 1]
  /\ tr' = NoTr
  /\ found' = NoFound
  /\ UNCHANGED <<roots, disk, out, res, reads>>

\* n.removeFromTree()
RemoveFromTree(n) ==
  /\ n \in Allocated
  /\ SetHeap(removeFromTree(Heap, n))
  /\ lastOp' = [op |-> "removeFromTree", node |-> n, hadParent |-> parent[n] # NIL,
                hadPrev |-> previous[n] # NIL, hadNext |-> nextSib[n] # NIL]
  /\ tr' = NoTr
  /\ found' = NoFound
  /\ UNCHANGED <<nAlloc, roots, disk, out, res, reads>>

\* the visitors of TestTraverse: they record the node and answer by its
\* identity; here up to two nodes get an answer other than (next, nil)
VisitorTables ==
  UNION {{[i \in NodeIds |-> IF i = a THEN oa ELSE IF i = b THEN ob ELSE Continue] :
            b \in a..nAlloc, oa \in Outcomes, ob \in Outcomes} : a \in Allocated}

\* start.traverse(fn) with a recording visitor. The walk leaves the tree as
\* it is, so one walk is recorded per state of the tree; the next mutation
\* clears the record.
Traverse(start, tab) ==
  /\ LET r == traverse(start, TableFn(tab), Acc(Heap)) IN
       tr' = [start |-> start, tab |-> tab, visited |-> r.acc.visited, err |-> r.err]
  /\ lastOp' = [NoOp EXCEPT !.op = "traverse", !.node = start]
  /\ found' = NoFound
  /\ UNCHANGED <<nodeVars, nAlloc, roots, disk, out, res, reads>>

\* the global assets tree and the assets tree of a post, both empty
InitFind ==
  /\ t = [i \in NodeIds |-> IF i \in {1, 2} THEN DIRNODE ELSE FILENODE]
  /\ name = [i \in NodeIds |-> IF i \in {1, 2} THEN RootName ELSE EmptyStr]
  /\ path = [i \in NodeIds |-> IF i = 1 THEN RootPath
                                ELSE IF i = 2 THEN PatRootPath ELSE EmptyStr]
  /\ parent = [i \in NodeIds |-> NIL]
  /\ firstChild = [i \in NodeIds |-> NIL]
  /\ nextSib = [i \in NodeIds |-> NIL]
  /\ previous = [i \in NodeIds |-> NIL]
  /\ nAlloc = 2
  /\ roots = {1, 2}
  /\ lastOp = NoOp
  /\ tr = NoTr
  /\ found = NoFound
  /\ content = [i \in NodeIds |-> NilContent]
  /\ sizes = [i \in NodeIds |-> << >>]
  /\ processedPath = [i \in NodeIds |-> EmptyStr]
  /\ processedRelPath = [i \in NodeIds |-> EmptyStr]
  /\ disk = NoFiles
  /\ out = NoFiles
  /\ res = NoRes
  /\ reads = [i \in NodeIds |-> 0]

\* the names of the nodes of the trees that are searched: "a", "b"
FindNames == {<<ChA>>, <<ChB>>}

\* paths of one to MaxSegments names
PlainRelPaths ==
  {JoinSegments(segs) : segs \in UNION {[1..k -> FindNames] : k \in 1..MaxSegments}}

\* the references handed to the lookup: empty, a path, a path after "/", or
\* a name after "//"
RelPaths ==
  {EmptyStr}
    \cup {pre \o p : pre \in {EmptyStr, <<Slash>>}, p \in PlainRelPaths}
    \cup {<<Slash, Slash>> \o nm : nm \in FindNames}

\* root.findByRelPath(relPath)
FindByRelPath(root, relPath) ==
  /\ found' = [NoFound EXCEPT !.op = "findByRelPath", !.gat = root, !.relPath = relPath,
                              !.n = findByRelPath(Heap, root, relPath)]
  /\ lastOp' = [NoOp EXCEPT !.op = "findByRelPath", !.node = root]
  /\ tr' = NoTr
  /\ UNCHANGED <<nodeVars, nAlloc, roots, disk, out, res, reads>>

\* findByRelPathInGATOrPAT(gat, pat, relPath); either tree may be nil
FindByRelPathInGATOrPAT(gat, pat, relPath) ==
  /\ LET r == findByRelPathInGATOrPAT(Heap, gat, pat, relPath) IN
       found' = [op |-> "findByRelPathInGATOrPAT", gat |-> gat, pat |-> pat,
                 relPath |-> relPath, n |-> r.n, searchedInPAT |-> r.searchedInPAT]
  /\ lastOp' = [NoOp EXCEPT !.op = "findByRelPathInGATOrPAT"]
  /\ tr' = NoTr
  /\ UNCHANGED <<nodeVars, nAlloc, roots, disk, out, res, reads>>

\* addChild and removeFromTree tell a directory from the rest only, so the
\* children added here are files and directories
Next ==
  \/ \E n \in NodeIds, ty \in {FILENODE, DIRNODE}, nm \in Names : AddChild(n, ty, nm)
  \/ \E n \in NodeIds : RemoveFromTree(n)

Spec == Init /\ [][Next]_vars

\* trees of every shape and kind of node, built by appending children, and
\* traversals of them from every node
NextTraverse ==
  \/ \E n \in NodeIds, ty \in NodeTypes : AddChild(n, ty, <<ChA>>)
  \/ /\ tr = NoTr
     /\ \E start \in Allocated, tab \in VisitorTables : Traverse(start, tab)

SpecTraverse == Init /\ [][NextTraverse]_vars

\* two trees built by addChild, and lookups in them; a lookup leaves the
\* trees as they are, so one lookup is recorded per state of the trees
NextFind ==
  \/ \E n \in NodeIds, ty \in NodeTypes, nm \in FindNames : AddChild(n, ty, nm)
  \/ /\ found = NoFound
     /\ \E root \in roots, relPath \in PlainRelPaths : FindByRelPath(root, relPath)
  \/ /\ found = NoFound
     /\ \E gat \in {NIL, 1}, pat \in {NIL, 2}, relPath \in RelPaths :
          FindByRelPathInGATOrPAT(gat, pat, relPath)

SpecFind == InitFind /\ [][NextFind]_vars

\* ------------------------------------------------------- shape of the tree
\* the sibling chain from c on, following next
RECURSIVE ChainFrom(_, _)
ChainFrom(h, c) ==
  IF c = NIL THEN << >> ELSE <<c>> \o ChainFrom(h, h.next[c])

\* the children of n, read from firstChild along next
Children(h, n) == ChainFrom(h, h.firstChild[n])

SeqToSet(s) == {s[i] : i \in 1..Len(s)}

\* n and everything below it
RECURSIVE Subtree(_, _)
Subtree(h, n) ==
  {n} \cup UNION {Subtree(h, c) : c \in SeqToSet(Children(h, n))}

Descendants(h, n) == Subtree(h, n) \ {n}

\* the pre-order listing of the subtree of n: n, then the listing of each
\* child in chain order
RECURSIVE PreOrder(_, _), PreOrderChain(_, _)
PreOrder(h, n) == <<n>> \o PreOrderChain(h, h.firstChild[n])
PreOrderChain(h, c) ==
  IF c = NIL THEN << >> ELSE PreOrder(h, c) \o PreOrderChain(h, h.next[c])

\* the root of the tree n is in
RECURSIVE TopOf(_, _)
TopOf(h, n) == IF h.parent[n] = NIL THEN n ELSE TopOf(h, h.parent[n])

Without(s, S) == SelectSeq(s, LAMBDA x : x \notin S)

\* (C1) Reading the children of any node from firstChild along next yields
\* names in non-decreasing lexicographic order, after any sequence of
\* addChild and removeFromTree calls.
C1_SortedChildren ==
  \A n \in Allocated :
    LET cs == Children(Heap, n) IN
    \A i \in 1..(Len(cs) - 1) : ~StrLess(name[cs[i + 1]], name[cs[i]])

\* after a removal, addChild put the new child in front of an older sibling
C1_Witness ==
  /\ lastOp.op = "addChild"
  /\ nextSib[lastOp.node] # NIL
  /\ StrLess(name[lastOp.node], name[nextSib[lastOp.node]])
  /\ \E m \in Allocated : m \notin roots /\ parent[m] = NIL

\* (C2) For every node: if it has a next then next.previous is that node, if
\* it has a previous then previous.next is that node, every node in a child
\* chain has that directory as parent, and firstChild is exactly the one
\* child that has no previous.
C2_LinkIntegrity ==
  /\ \A n \in Allocated :
        /\ nextSib[n] # NIL => previous[nextSib[n]] = n
        /\ previous[n] # NIL => nextSib[previous[n]] = n
        /\ \A c \in SeqToSet(Children(Heap, n)) : parent[c] = n
        /\ \A c \in Allocated :
              parent[c] = n => (firstChild[n] = c <=> previous[c] = NIL)
        /\ firstChild[n] # NIL => parent[firstChild[n]] = n
  /\ \A c \in Allocated :
        parent[c] # NIL => c \in SeqToSet(Children(Heap, parent[c]))

\* a middle child was removed from a directory that still has two children
C2_Witness ==
  /\ lastOp.op = "removeFromTree"
  /\ lastOp.hadPrev
  /\ lastOp.hadNext
  /\ Len(Children(Heap, 1)) = 2

\* what removeFromTree(n) may change outside the subtree of n: the links
\* that pointed at n
RemoveFrameOK(h, h2, n) ==
  LET sub == Subtree(h, n)
      p == h.parent[n]
      top == TopOf(h, p)
  IN /\ \A m \in Allocated \ sub :
          /\ h2.t[m] = h.t[m]
          /\ h2.name[m] = h.name[m]
          /\ h2.path[m] = h.path[m]
          /\ h2.parent[m] = h.parent[m]
          /\ h2.firstChild[m] = IF h.firstChild[m] = n THEN h.next[n] ELSE h.firstChild[m]
          /\ h2.next[m] = IF h.next[m] = n THEN h.next[n] ELSE h.next[m]
          /\ h2.previous[m] = IF h.previous[m] = n THEN h.previous[n] ELSE h.previous[m]
     /\ Children(h2, p) = Without(Children(h, p), {n})
     /\ PreOrder(h2, top) = Without(PreOrder(h, top), sub)

\* (C7) removeFromTree on a node that has a parent leaves the tree it was
\* removed from equal to the original tree without the subtree of that node:
\* the remaining siblings keep their order and no field of a remaining node
\* changes but the links that pointed at the removed node.
C7_RemoveFrame ==
  [][(lastOp'.op = "removeFromTree" /\ parent[lastOp'.node] # NIL)
       => RemoveFrameOK(Heap, Heap', lastOp'.node)]_vars

\* a first child that has a child of its own was removed from before a sibling
C7_Witness ==
  /\ lastOp.op = "removeFromTree"
  /\ lastOp.hadParent
  /\ ~lastOp.hadPrev
  /\ lastOp.hadNext
  /\ firstChild[lastOp.node] # NIL

\* what removeFromTree(n) does to the subtree it detaches
DetachedOK(h, h2, n) ==
  /\ \A m \in Subtree(h, n) : h2.path[m] = EmptyStr
  /\ h2.parent[n] = NIL
  /\ h2.next[n] = NIL
  /\ h2.previous[n] = NIL
  /\ h2.firstChild[n] = h.firstChild[n]
  /\ \A m \in Descendants(h, n) :
        /\ h2.parent[m] = h.parent[m]
        /\ h2.firstChild[m] = h.firstChild[m]
        /\ h2.next[m] = h.next[m]
        /\ h2.previous[m] = h.previous[m]

\* (C8) After removeFromTree has removed a directory, the path of the
\* directory and of every node of its subtree is empty, its parent, next and
\* previous are nil, and every other link inside the detached subtree is as
\* it was.
C8_RemoveDirectory ==
  [][(/\ lastOp'.op = "removeFromTree"
      /\ parent[lastOp'.node] # NIL
      /\ t[lastOp'.node] = DIRNODE)
       => DetachedOK(Heap, Heap', lastOp'.node)]_vars

\* the removed directory holds two children, still linked to each other
C8_Witness ==
  /\ lastOp.op = "removeFromTree"
  /\ lastOp.hadParent
  /\ t[lastOp.node] = DIRNODE
  /\ Len(Children(Heap, lastOp.node)) = 2
  /\ \A m \in Subtree(Heap, lastOp.node) : path[m] = EmptyStr

Traversed == tr.start # NIL
Stops(o) == o.status = terminate \/ o.err # NoErr
Count(s, x) == Cardinality({i \in 1..Len(s) : s[i] = x})

\* (C3) A traversal whose visitor always returns (next, nil) calls the
\* visitor exactly once on every node of the subtree of the start node, the
\* start node included, in pre-order, and returns no error.
C3_VisitsAllInPreOrder ==
  (Traversed /\ \A m \in Subtree(Heap, tr.start) : tr.tab[m] = Continue)
    => /\ tr.visited = PreOrder(Heap, tr.start)
       /\ SeqToSet(tr.visited) = Subtree(Heap, tr.start)
       /\ \A m \in Subtree(Heap, tr.start) : Count(tr.visited, m) = 1
       /\ tr.err = NoErr

\* a walk from a node below the root went through three nodes
C3_Witness ==
  /\ Traversed
  /\ tr.start \notin roots
  /\ \A m \in Subtree(Heap, tr.start) : tr.tab[m] = Continue
  /\ Len(tr.visited) = 3

\* (C4) Once the visitor returns terminate or an error for a node, the
\* visitor is not called again, and traverse returns exactly the error of
\* that call (nil for a plain terminate).
C4_StopsAtTerminateOrError ==
  Traversed =>
    /\ \A i \in 1..Len(tr.visited) :
          Stops(tr.tab[tr.visited[i]])
            => /\ i = Len(tr.visited)
               /\ tr.err = tr.tab[tr.visited[i]].err
    /\ (\A i \in 1..Len(tr.visited) : ~Stops(tr.tab[tr.visited[i]])) => tr.err = NoErr

\* a leaf two levels down returned (next, error) while a node was still to come
C4_Witness ==
  /\ Traversed
  /\ tr.err = SomeErr
  /\ LET last == tr.visited[Len(tr.visited)] IN
       /\ tr.tab[last] = [status |-> next, err |-> SomeErr]
       /\ t[last] # DIRNODE
       /\ parent[last] # NIL
       /\ parent[last] # tr.start
  /\ Len(tr.visited) < Cardinality(Subtree(Heap, tr.start))

\* (C5) When the visitor returns skipChildren for a directory, no
\* descendant of the directory is visited, its next sibling is visited
\* right after it, and the whole walk is the walk of the tree in which the
\* directory has no children.
C5_DirectorySkip ==
  Traversed =>
    \A i \in 1..Len(tr.visited) :
      LET d == tr.visited[i] IN
      (t[d] = DIRNODE /\ tr.tab[d] = SkipOutcome)
        => /\ Descendants(Heap, d) \cap SeqToSet(tr.visited) = {}
           /\ (d # tr.start /\ nextSib[d] # NIL)
                 => (i < Len(tr.visited) /\ tr.visited[i + 1] = nextSib[d])
           /\ LET r == traverse(tr.start, TableFn(tr.tab),
                                Acc([Heap EXCEPT !.firstChild[d] = NIL]))
              IN tr.visited = r.acc.visited /\ tr.err = r.err

\* a directory with a child was skipped and its next sibling was visited
C5_Witness ==
  /\ Traversed
  /\ \E i \in 1..(Len(tr.visited) - 1) :
       LET d == tr.visited[i] IN
       /\ t[d] = DIRNODE
       /\ d # tr.start
       /\ tr.tab[d] = SkipOutcome
       /\ firstChild[d] # NIL
       /\ tr.visited[i + 1] = nextSib[d]

\* the siblings after c
LaterSiblings(h, c) == SeqToSet(ChainFrom(h, h.next[c]))

\* (C6) When the visitor returns skipChildren for a File or Image node
\* reached as a child, no later sibling of the leaf nor a descendant of one
\* is visited, the walk goes on at the next sibling of the parent of the
\* leaf as if the leaf had been the last child, and it ends without error
\* when the parent is the start node.
C6_LeafSkip ==
  Traversed =>
    \A i \in 2..Len(tr.visited) :
      LET c == tr.visited[i] IN
      (t[c] # DIRNODE /\ tr.tab[c] = SkipOutcome)
        => /\ \A m \in LaterSiblings(Heap, c) :
                 Subtree(Heap, m) \cap SeqToSet(tr.visited) = {}
           /\ parent[c] = tr.start => (i = Len(tr.visited) /\ tr.err = NoErr)
           /\ (parent[c] # tr.start /\ nextSib[parent[c]] # NIL)
                 => (i < Len(tr.visited) /\ tr.visited[i + 1] = nextSib[parent[c]])
           /\ LET r == traverse(tr.start,
                                TableFn([tr.tab EXCEPT ![c] = Continue]),
                                Acc([Heap EXCEPT !.next[c] = NIL]))
              IN tr.visited = r.acc.visited /\ tr.err = r.err

\* a leaf of a directory below the start node was skipped and the walk went
\* on at the next sibling of that directory
C6_Witness ==
  /\ Traversed
  /\ \E i \in 2..(Len(tr.visited) - 1) :
       LET c == tr.visited[i] IN
       /\ t[c] # DIRNODE
       /\ tr.tab[c] = SkipOutcome
       /\ parent[c] # tr.start
       /\ tr.visited[i + 1] = nextSib[parent[c]]

\* the node reached from root by the names of segs, taking at each level
\* the first child that bears the name; NIL when a name has no child
RECURSIVE Lookup(_, _, _)
Lookup(h, root, segs) ==
  LET cs == Children(h, root)
      hits == {i \in 1..Len(cs) : h.name[cs[i]] = segs[1]}
  IN IF hits = {} THEN NIL
     ELSE LET c == cs[CHOOSE i \in hits : \A j \in hits : i <= j] IN
          IF Len(segs) = 1 THEN c ELSE Lookup(h, c, Tail(segs))

LookupIn(h, root, ref) == IF root = NIL THEN NIL ELSE Lookup(h, root, Split(ref))

\* (C9) A reference that starts with "/" is resolved in the global tree
\* only, after one "/" is stripped, and one that starts with another byte in
\* the tree of the post only: the node is a node of the selected tree or nil,
\* and it is the same whatever the other tree is.
C9_SelectedTreeOnly ==
  (found.op = "findByRelPathInGATOrPAT" /\ Len(found.relPath) > 0) =>
    LET ref == found.relPath IN
    IF ref[1] = Slash
    THEN /\ found.n = LookupIn(Heap, found.gat, SubSeq(ref, 2, Len(ref)))
         /\ found.n # NIL => found.n \in Descendants(Heap, found.gat)
         /\ \A other \in {NIL} \cup roots :
               findByRelPathInGATOrPAT(Heap, found.gat, other, ref).n = found.n
    ELSE /\ found.n = LookupIn(Heap, found.pat, ref)
         /\ found.n # NIL => found.n \in Descendants(Heap, found.pat)
         /\ \A other \in {NIL} \cup roots :
               findByRelPathInGATOrPAT(Heap, other, found.pat, ref).n = found.n

\* a reference without "/" in front missed in the tree of the post although
\* the global tree holds the path
C9_Witness ==
  /\ found.op = "findByRelPathInGATOrPAT"
  /\ found.gat # NIL
  /\ found.pat # NIL
  /\ Len(found.relPath) > 0
  /\ found.relPath[1] # Slash
  /\ found.n = NIL
  /\ firstChild[found.pat] # NIL
  /\ LookupIn(Heap, found.gat, found.relPath) # NIL

\* the names from root down to x, joined by "/"
RECURSIVE RelPathOf(_, _, _)
RelPathOf(h, root, x) ==
  IF h.parent[x] = root THEN h.name[x]
  ELSE RelPathOf(h, root, h.parent[x]) \o <<Slash>> \o h.name[x]

ChildNames(h, n) == {h.name[c] : c \in SeqToSet(Children(h, n))}

\* the lookup of the path of x gives x, and the path with one more segment
\* that names no child of x gives nil
RoundTripOK(h, root, x) ==
  /\ found.relPath = RelPathOf(h, root, x) => found.n = x
  /\ \A seg \in FindNames \ ChildNames(h, x) :
        found.relPath = RelPathOf(h, root, x) \o <<Slash>> \o seg => found.n = NIL

\* (C10) as claimed: for every node below the root, findByRelPath on the
\* root with the names down to the node joined by "/" returns that node, and
\* the path with one more segment that names no child returns nil.
C10_RoundTripEveryNode ==
  found.op = "findByRelPath" =>
    \A x \in Descendants(Heap, found.gat) : RoundTripOK(Heap, found.gat, x)

\* no sibling before x bears the name of x, and the same for each ancestor
\* of x below root
RECURSIVE FirstOfItsName(_, _, _)
FirstOfItsName(h, root, x) ==
  /\ \A m \in Allocated :
        (h.parent[m] = h.parent[x] /\ h.name[m] = h.name[x] /\ m # x)
          => m \in LaterSiblings(h, x)
  /\ h.parent[x] # root => FirstOfItsName(h, root, h.parent[x])

\* (C10) amended: the round trip holds for every node below the root that
\* is, as each of its ancestors below the root, the first of its siblings
\* with its name.
C10_RoundTripFirstOfName ==
  found.op = "findByRelPath" =>
    \A x \in Descendants(Heap, found.gat) :
      FirstOfItsName(Heap, found.gat, x) => RoundTripOK(Heap, found.gat, x)

\* a node two levels below the root was found by its path
C10_Witness ==
  /\ found.op = "findByRelPath"
  /\ found.n # NIL
  /\ parent[found.n] # found.gat
  /\ found.relPath = RelPathOf(Heap, found.gat, found.n)

\* ============================================================= image sizes
\* bound of the number of widths handed to one addSizes call
MaxWidths == 2

\* widths of the image as imgDimensions reads them, and widths asked for
OrigWidths == {5, 12}
CandWidths == {2, 5, 12}
WidthLists == UNION {[1..k -> CandWidths] : k \in 1..MaxWidths}

\* "b.png", its bytes, the output directory "o", the slug "p" of a post
ImgName == <<98, 46, 112, 110, 103>>
ImgData == <<105>>
OutDir == <<111>>
PostSlugs == {EmptyStr, <<112>>}

Faults == {NoFault} \cup [stage : FaultStages, width : CandWidths]

FileIn(data, width, fail) == [kind |-> KFile, data |-> data, width |-> width, fail |-> fail]
DirIn(fail) == [kind |-> KDir, data |-> EmptyStr, width |-> 0, fail |-> fail]

\* the tree that generateAssetsTree returns for a directory that holds one
\* image, before it is published into the empty directory OutDir
InitSizes ==
  \E w \in OrigWidths :
    /\ t = [i \in NodeIds |-> IF i = 1 THEN DIRNODE ELSE IF i = 2 THEN IMGNODE ELSE FILENODE]
    /\ name = [i \in NodeIds |-> IF i = 1 THEN RootName ELSE IF i = 2 THEN ImgName ELSE EmptyStr]
    /\ path = [i \in NodeIds |-> IF i = 1 THEN RootPath
                                  ELSE IF i = 2 THEN pathJoin(RootPath, ImgName) ELSE EmptyStr]
    /\ parent = [i \in NodeIds |-> IF i = 2 THEN 1 ELSE NIL]
    /\ firstChild = [i \in NodeIds |-> IF i = 1 THEN 2 ELSE NIL]
    /\ nextSib = [i \in NodeIds |-> NIL]
    /\ previous = [i \in NodeIds |-> NIL]
    /\ nAlloc = 2
    /\ roots = {1}
    /\ lastOp = NoOp
    /\ tr = NoTr
    /\ found = NoFound
    /\ content = [i \in NodeIds |-> NilContent]
    /\ sizes = [i \in NodeIds |-> IF i = 2 THEN <<ImgSize(TRUE, w, FALSE)>> ELSE << >>]
    /\ processedPath = [i \in NodeIds |-> EmptyStr]
    /\ processedRelPath = [i \in NodeIds |-> EmptyStr]
    /\ disk = (RootPath :> DirIn(NoErr))
                @@ (pathJoin(RootPath, ImgName) :> FileIn(ImgData, w, NoErr))
    /\ out = (OutDir :> DirOut)
    /\ res = NoRes
    /\ reads = [i \in NodeIds |-> 0]

\* the record of a call on the sizes of node n
SizesRes(op, n, widths, postSlug, err, value) ==
  [op |-> op, node |-> n, widths |-> widths, postSlug |-> postSlug,
   before |-> sizes[n], err |-> err, value |-> value]

\* root.process(outDirPath, false), as Build calls it
Publish(root, outDirPath, fault) ==
  /\ root \in roots
  /\ LET returned(r) ==
           /\ SetHeap(r.h)
           /\ out' = r.out
           /\ res' = [op |-> "process", node |-> root, outDirPath |-> outDirPath,
                      err |-> r.err]
           /\ reads' = countReads(reads, r.reads)
     IN returned(process(Heap, out, disk, root, outDirPath, FALSE, fault))
  /\ UNCHANGED <<nAlloc, roots, lastOp, tr, found, disk>>

\* n.addSizes(widths...)
AddSizes(n, widths) ==
  /\ n \in Allocated
  /\ t[n] = IMGNODE
  /\ SetHeap(addSizes(Heap, n, widths))
  /\ res' = SizesRes("addSizes", n, widths, EmptyStr, NoErr, EmptyStr)
  /\ UNCHANGED <<nAlloc, roots, lastOp, tr, found, disk, out, reads>>

\* n.processSizes() on an image
ProcessSizes(n, fault) ==
  /\ n \in Allocated
  /\ t[n] = IMGNODE
  /\ LET returned(r) ==
           /\ SetHeap(r.h)
           /\ out' = r.out
           /\ res' = SizesRes("processSizes", n, << >>, EmptyStr, r.err, EmptyStr)
           /\ reads' = IF r.err = PanicErr THEN reads
                       ELSE countReads(reads, contentReads(Heap, n))
     IN returned(processSizes(Heap, out, disk, n, fault))
  /\ UNCHANGED <<nAlloc, roots, lastOp, tr, found, disk>>

\* n.generateSrcSetValue(postSlug)
GenerateSrcSetValue(n, postSlug) ==
  /\ n \in Allocated
  /\ t[n] = IMGNODE
  /\ LET r == generateSrcSetValue(Heap, n, postSlug) IN
       /\ SetHeap([Heap EXCEPT !.sizes[n] = r.sizes])
       /\ res' = SizesRes("generateSrcSetValue", n, << >>, postSlug, NoErr, r.value)
  /\ UNCHANGED <<nAlloc, roots, lastOp, tr, found, disk, out, reads>>

\* an image is published, then widths are asked for, written and listed in
\* any order, as the template functions do
NextSizes ==
  \/ \E root \in NodeIds, fault \in Faults : Publish(root, OutDir, fault)
  \/ \E n \in NodeIds, widths \in WidthLists : AddSizes(n, widths)
  \/ \E n \in NodeIds, fault \in Faults : ProcessSizes(n, fault)
  \/ \E n \in NodeIds, postSlug \in PostSlugs : GenerateSrcSetValue(n, postSlug)

SpecSizes == InitSizes /\ [][NextSizes]_vars

\* ---------------------------------------------------- claims on the sizes
ImgNodes == {n \in Allocated : t[n] = IMGNODE}
OriginalWidth(n) == sizes[n][findOriginalSize(Heap, n)].width
WidthsOf(szs) == {szs[i].width : i \in 1..Len(szs)}
\* the index of the first width of ws that is not smaller than w, Len(ws) + 1
\* when every width is smaller
FirstNotSmaller(ws, w) ==
  LET is == {i \in 1..Len(ws) : ws[i] >= w} IN
  IF is = {} THEN Len(ws) + 1 ELSE CHOOSE i \in is : \A j \in is : i <= j

\* (C11) After any sequence of addSizes calls on an image of original width
\* W, every size but the original has a width strictly smaller than W, no
\* two sizes have the same width, and the sizes a call has just added are
\* not processed.
C11_SizesOfAnImage ==
  /\ \A n \in ImgNodes :
       /\ \A i \in 1..Len(sizes[n]) :
            ~sizes[n][i].original => sizes[n][i].width < OriginalWidth(n)
       /\ \A i, j \in 1..Len(sizes[n]) :
            i # j => sizes[n][i].width # sizes[n][j].width
  /\ res.op = "addSizes" =>
       \A i \in (Len(res.before) + 1)..Len(sizes[res.node]) :
         ~sizes[res.node][i].processed /\ ~sizes[res.node][i].original

\* a call on an image that had a smaller size already has added a size and
\* was then asked for the original width itself
C11_Witness ==
  /\ res.op = "addSizes"
  /\ Len(res.before) > 1
  /\ Len(sizes[res.node]) > Len(res.before)
  /\ \E i \in 2..Len(res.widths) : res.widths[i] = OriginalWidth(res.node)

\* (C12) as claimed: after addSizes(w1..wk), every candidate that is smaller
\* than the original width and comes before the first candidate that is not
\* is one of the sizes, also when an earlier candidate was already there.
C12_EveryCandidateBeforeTheFirstTooLarge ==
  res.op = "addSizes" =>
    \A k \in 1..(FirstNotSmaller(res.widths, OriginalWidth(res.node)) - 1) :
      res.widths[k] \in WidthsOf(sizes[res.node])

\* (C13) In addSizes(w1..wk) the first candidate wi that is not smaller than
\* the original width ends the call: what the call adds is among w1..w(i-1).
C13_FirstTooLargeEndsTheCall ==
  res.op = "addSizes" =>
    LET f == FirstNotSmaller(res.widths, OriginalWidth(res.node)) IN
    WidthsOf(sizes[res.node]) \ WidthsOf(res.before)
      \subseteq {res.widths[k] : k \in 1..(f - 1)}

\* a call with a candidate that is too large, followed by one that is
\* smaller than the original, new and not asked for before it
C13_Witness ==
  /\ res.op = "addSizes"
  /\ \E i, j \in 1..Len(res.widths) :
       /\ i < j
       /\ res.widths[i] > OriginalWidth(res.node)
       /\ res.widths[j] < OriginalWidth(res.node)
       /\ res.widths[j] \notin WidthsOf(res.before)
       /\ \A k \in 1..(i - 1) : res.widths[k] # res.widths[j]
       /\ res.widths[j] \notin WidthsOf(sizes[res.node])

\* the file of the i-th size of n
SizeFile(n, i) == generateSizeProcessedPath(Heap, n, FALSE, sizes[n][i])
AllProcessed(szs) == \A i \in 1..Len(szs) : szs[i].processed

C14_Step ==
  \A n \in ImgNodes :
    /\ processedPath[n] # EmptyStr =>
         /\ \A i \in 1..Len(sizes[n]) :
              sizes[n][i].processed =>
                /\ Len(sizes'[n]) >= i
                /\ sizes'[n][i] = sizes[n][i]
                /\ SizeFile(n, i) \in DOMAIN out'
                /\ out'[SizeFile(n, i)] = out[SizeFile(n, i)]
         /\ (res'.op = "processSizes" /\ res'.node = n /\ AllProcessed(sizes[n])) =>
              out' = out
    /\ (res'.op = "processSizes" /\ res'.node = n /\ res'.err = NoErr) =>
         AllProcessed(sizes'[n])
    /\ \A q \in DOMAIN out' : out'[q].writes <= 1

AscendingProcessed(n) ==
  LET P == {i \in 1..Len(sizes[n]) : sizes[n][i].processed} IN
  CHOOSE s \in [1..Cardinality(P) -> P] :
    \A a, b \in 1..Cardinality(P) :
      a < b => sizes[n][s[a]].width < sizes[n][s[b]].width

\* "<link> <width>w"
SrcSetEntry(n, postSlug, size) ==
  assetLink(Heap, n, postSlug, size) \o <<32>> \o Itoa(size.width) \o <<119>>

RECURSIVE JoinEntries(_)
JoinEntries(es) ==
  IF es = << >> THEN EmptyStr
  ELSE IF Len(es) = 1 THEN es[1]
  ELSE es[1] \o <<44, 32>> \o JoinEntries(Tail(es))

\* (C15) generateSrcSetValue returns the entries "<link> <width>w" of the
\* processed sizes and of no other, joined by ", " in strictly ascending
\* order of width, the empty string when no size is processed, and leaves
\* the stored sizes as they are.
C15_SrcSetValue ==
  res.op = "generateSrcSetValue" =>
    LET n == res.node
        s == AscendingProcessed(n)
    IN /\ res.value = JoinEntries([a \in 1..Len(s) |->
                                     SrcSetEntry(n, res.postSlug, sizes[n][s[a]])])
       /\ (\A i \in 1..Len(sizes[n]) : ~sizes[n][i].processed) => res.value = EmptyStr
       /\ sizes[n] = res.before

\* a listing of an image with two processed sizes stored in descending order
\* of width and a size that is not processed
C15_Witness ==
  /\ res.op = "generateSrcSetValue"
  /\ LET szs == sizes[res.node] IN
       /\ \E i, j \in 1..Len(szs) :
            i < j /\ szs[i].processed /\ szs[j].processed /\ szs[i].width > szs[j].width
       /\ \E i \in 1..Len(szs) : ~szs[i].processed

\* =============================================================== the build
\* names of the entries of the assets directory: "1.css", "a.css", "d",
\* the image "b.png" and ".gitkeep"
CssOne == <<49, 46, 99, 115, 115>>
CssA == <<97, 46, 99, 115, 115>>
DirD == <<100>>
\* "c.png", a copy of "b.png"
ImgCopyName == <<99, 46, 112, 110, 103>>
BuildNames == {CssOne, CssA, ImgName, ImgCopyName, DirD, GitKeep}

ReadErrs == {NoErr, ErrNotExist, SomeErr}

\* the entries of a name: a style sheet "p " or "q", an image whose header
\* reads or fails to (a link to a missing file gives ErrNotExist), a file
\* "f" or a directory whose listing reads or fails to (a directory removed
\* since its parent was listed gives ErrNotExist), an empty file
EntriesNamed(nm) ==
  IF nm = CssOne THEN {FileIn(<<112, 32>>, 0, NoErr)}
  ELSE IF nm = CssA THEN {FileIn(<<113>>, 0, NoErr)}
  ELSE IF nm = ImgName THEN {FileIn(ImgData, w, f) : w \in {12}, f \in ReadErrs}
  ELSE IF nm = ImgCopyName THEN {FileIn(ImgData, 12, NoErr)}
  ELSE IF nm = DirD THEN {FileIn(<<102>>, 0, NoErr)} \cup {DirIn(f) : f \in ReadErrs}
  ELSE {FileIn(EmptyStr, 0, NoErr)}

\* the paths handed to generateAssetsTree: "r/" is there, "m/" is not
AssetsPaths == {<<114, 47>>, <<109, 47>>}
\* the regexps handed to generateAssetsTree: none, `d/`, `a`
IgnoreSets == {{}, {<<100, 47>>}, {<<97>>}}

\* the publish of the build: every call of the operating system succeeds,
\* or the write of the file of an image fails
BuildFaults == {NoFault, [stage |-> "write", width |-> 12]}

\* no tree yet, an assets directory without entries and an empty output
\* directory
InitBuild ==
  /\ t = [i \in NodeIds |-> FILENODE]
  /\ name = [i \in NodeIds |-> EmptyStr]
  /\ path = [i \in NodeIds |-> EmptyStr]
  /\ parent = [i \in NodeIds |-> NIL]
  /\ firstChild = [i \in NodeIds |-> NIL]
  /\ nextSib = [i \in NodeIds |-> NIL]
  /\ previous = [i \in NodeIds |-> NIL]
  /\ nAlloc = 0
  /\ roots = {}
  /\ lastOp = NoOp
  /\ tr = NoTr
  /\ found = NoFound
  /\ content = [i \in NodeIds |-> NilContent]
  /\ sizes = [i \in NodeIds |-> << >>]
  /\ processedPath = [i \in NodeIds |-> EmptyStr]
  /\ processedRelPath = [i \in NodeIds |-> EmptyStr]
  /\ disk = (RootPath :> DirIn(NoErr))
  /\ out = (OutDir :> DirOut)
  /\ res = NoRes
  /\ reads = [i \in NodeIds |-> 0]

\* the user puts an entry into a directory of the assets directory; a tree
\* has a node for the root and at most one for each entry
CreateEntry(dir, nm, e) ==
  /\ IsDirIn(disk, dir)
  /\ disk[dir].fail = NoErr
  /\ Cardinality(DOMAIN disk) < MaxNodes
  /\ pathJoin(dir, nm) \notin DOMAIN disk
  /\ disk' = (pathJoin(dir, nm) :> e) @@ disk
  /\ UNCHANGED <<nodeVars, nAlloc, roots, lastOp, tr, found, out, res, reads>>

\* generateAssetsTree(assetsPath, ignoreRegexps)
GenerateAssetsTree(assetsPath, ignoreRegexps) ==
  /\ LET returned(g) ==
           /\ SetHeap(g.h)
           /\ nAlloc' = g.na
           /\ roots' = IF g.root = NIL THEN roots ELSE roots \cup {g.root}
           /\ res' = [op |-> "generateAssetsTree", assetsPath |-> assetsPath,
                      ignoreRegexps |-> ignoreRegexps, root |-> g.root, err |-> g.err]
     IN returned(generateAssetsTree(Heap, nAlloc, disk, assetsPath, ignoreRegexps))
  /\ UNCHANGED <<lastOp, tr, found, disk, out, reads>>

\* "chroma.css" and the style sheet "k " that chroma writes
ChromaCSS == <<99, 104, 114, 111, 109, 97, 46, 99, 115, 115>>
ChromaStyles == <<107, 32>>

\* Build adds the style sheet of chroma to the tree, its content in memory
AddChromaCSS(n) ==
  /\ n \in roots
  /\ nAlloc < MaxNodes
  /\ SetHeap(setContent(addChild(Heap, n, nAlloc + 1, FILENODE, ChromaCSS),
                        nAlloc + 1, ChromaStyles))
  /\ nAlloc' = nAlloc + 1
  /\ res' = [op |-> "addChild", node |-> nAlloc + 1, err |-> NoErr]
  /\ UNCHANGED <<roots, lastOp, tr, found, disk, out, reads>>

\* n.processCSSFileNodes()
ProcessCSSFileNodes(n) ==
  /\ n \in roots
  /\ nAlloc < MaxNodes
  /\ LET returned(r) ==
           /\ SetHeap(r.h)
           /\ nAlloc' = IF r.added THEN nAlloc + 1 ELSE nAlloc
           /\ res' = [op |-> "processCSSFileNodes", node |-> n, before |-> Heap,
                      visited |-> r.visited, err |-> r.err]
           /\ reads' = countReads(reads, r.reads)
     IN returned(processCSSFileNodes(Heap, disk, n, nAlloc + 1))
  /\ UNCHANGED <<roots, lastOp, tr, found, disk, out>>

\* Build: the assets directory as the user left it is read into a tree, its
\* style sheets are bundled and the tree is published
NextBuild ==
  \/ /\ res = NoRes
     /\ \E dir \in DOMAIN disk, nm \in BuildNames :
          \E e \in EntriesNamed(nm) : CreateEntry(dir, nm, e)
  \/ /\ res = NoRes
     /\ \E assetsPath \in AssetsPaths, ignoreRegexps \in IgnoreSets :
          GenerateAssetsTree(assetsPath, ignoreRegexps)
  \/ /\ res.op = "generateAssetsTree"
     /\ \E n \in roots : AddChromaCSS(n)
  \/ /\ res.op \in {"generateAssetsTree", "addChild"}
     /\ \E n \in roots : ProcessCSSFileNodes(n)
  \/ /\ res.op \in {"generateAssetsTree", "addChild", "processCSSFileNodes"}
     /\ res.err = NoErr
     /\ \E n \in roots, fault \in BuildFaults : Publish(n, OutDir, fault)

SpecBuild == InitBuild /\ [][NextBuild]_vars

\* -------------------------------------------------- claims on the build
\* the content getContent gives for n
ContentOf(h, d, n) ==
  IF h.content[n] # NilContent THEN h.content[n] ELSE d[h.path[n]].data
HexDigest(bs) == hexEncodeToString(md5Sum(bs))

\* a name is its base followed by its extension, which starts at its last dot
ExtOf(nm) ==
  LET ds == {i \in 1..Len(nm) : nm[i] = 46} IN
  IF ds = {} THEN EmptyStr
  ELSE SubSeq(nm, CHOOSE i \in ds : \A j \in ds : j <= i, Len(nm))
BaseOf(nm) == SubSeq(nm, 1, Len(nm) - Len(ExtOf(nm)))

\* the path of the parent of n relative to root, empty for a child of root
RelDirOf(h, root, n) ==
  IF h.parent[n] = root THEN EmptyStr ELSE RelPathOf(h, root, h.parent[n])
InDir(dir, nm) == IF dir = EmptyStr THEN nm ELSE dir \o <<Slash>> \o nm

ProcessedWidths(n) == {sizes[n][i].width : i \in {j \in 1..Len(sizes[n]) : sizes[n][j].processed}}

\* (C16) After a publish without error into outputDir, below the root: a
\* File has as outputRelativePath its relative path with the name replaced
\* by <base>-<hexdigest of its content><ext>; an Image has its parent's
\* relative path joined with the hexdigest of its bytes, a directory that
\* holds one <width><ext> file for each processed size, the original among
\* them; a Directory has its relative path; and outputPath is outputDir
\* joined with outputRelativePath.
C16_PublishedPaths ==
  (res.op = "process" /\ res.err = NoErr) =>
    \A n \in Descendants(Heap, res.node) :
      LET dir == RelDirOf(Heap, res.node, n)
          hex == HexDigest(ContentOf(Heap, disk, n))
      IN
      /\ t[n] = FILENODE =>
           processedRelPath[n] =
             InDir(dir, BaseOf(name[n]) \o <<45>> \o hex \o ExtOf(name[n]))
      /\ t[n] = IMGNODE =>
           /\ processedRelPath[n] = InDir(dir, hex)
           /\ IsDirIn(out, processedPath[n])
           /\ {q \in DOMAIN out : pathDir(q) = processedPath[n]}
                = {InDir(processedPath[n], Itoa(w) \o ExtOf(name[n])) :
                     w \in ProcessedWidths(n)}
           /\ \E i \in 1..Len(sizes[n]) : sizes[n][i].original /\ sizes[n][i].processed
      /\ t[n] = DIRNODE => processedRelPath[n] = RelPathOf(Heap, res.node, n)
      /\ processedPath[n] = InDir(res.outDirPath, processedRelPath[n])

\* a publish without error of a tree with an image in a directory and a
\* file whose name has an extension
C16_Witness ==
  /\ res.op = "process"
  /\ res.err = NoErr
  /\ \E n \in Descendants(Heap, res.node) : t[n] = IMGNODE /\ parent[n] # res.node
  /\ \E n \in Descendants(Heap, res.node) : t[n] = FILENODE /\ ExtOf(name[n]) # EmptyStr

\* the File children of r whose name matches the CSS pattern, in chain order
CSSFiles(h, r) ==
  SelectSeq(Children(h, r), LAMBDA c : h.t[c] = FILENODE /\ cssFilenameMatch(h.name[c]))

\* the contents of the nodes cs, one after the other in ascending order of
\* their names
RECURSIVE ConcatAscending(_, _, _)
ConcatAscending(h, d, cs) ==
  IF cs = {} THEN EmptyStr
  ELSE
    LET m == CHOOSE c \in cs : \A c2 \in cs : ~StrLess(h.name[c2], h.name[c]) IN
    ContentOf(h, d, m) \o ConcatAscending(h, d, cs \ {m})

\* (C17) After processCSSFileNodes on a root, the root has exactly one File
\* child whose name matches the CSS pattern: it is named style.css and its
\* content is the minified concatenation of the contents of the CSS files
\* that were children of the root, in ascending order of their names; these
\* files are detached; the CSS files in subdirectories and every other node
\* are where they were.
C17_Bundle ==
  (res.op = "processCSSFileNodes" /\ res.err = NoErr) =>
    LET r == res.node
        hb == res.before
        former == SeqToSet(CSSFiles(hb, r))
        now == SeqToSet(CSSFiles(Heap, r))
    IN /\ Cardinality(now) = 1
       /\ \A s \in now :
            /\ name[s] = StyleCSS
            /\ content[s] = minify(ConcatAscending(hb, disk, former))
       /\ \A c \in former : parent[c] = NIL /\ c \notin Subtree(Heap, r)
       /\ \A x \in Descendants(hb, r) \ former :
            /\ x \in Descendants(Heap, r)
            /\ parent[x] = hb.parent[x]
            /\ path[x] = hb.path[x]
            /\ name[x] = hb.name[x]
            /\ t[x] = hb.t[x]
       /\ \A x \in Subtree(hb, r) \ former :
            Without(Children(Heap, x), now) = Without(Children(hb, x), former)

\* a bundling of two style sheets whose contents differ, one read from its
\* file and one held in memory
C17_Witness ==
  /\ res.op = "processCSSFileNodes"
  /\ res.err = NoErr
  /\ LET former == CSSFiles(res.before, res.node) IN
       /\ Len(former) = 2
       /\ res.before.content[former[1]] = NilContent
       /\ res.before.content[former[2]] # NilContent
       /\ ContentOf(res.before, disk, former[1]) # ContentOf(res.before, disk, former[2])

\* the entries of d below the directory rp
BelowRoot(d, rp) == {p \in DOMAIN d : HasPrefix(p, rp \o <<Slash>>)}
NameToMatch(d, p) ==
  IF d[p].kind = KDir THEN pathBase(p) \o <<Slash>> ELSE pathBase(p)

\* p or a directory between rp and p matches a rule
RECURSIVE IgnoredEntry(_, _, _, _)
IgnoredEntry(d, rp, rules, p) ==
  IF p = rp THEN FALSE
  ELSE \/ \E rx \in rules : Contains(NameToMatch(d, p), rx)
       \/ IgnoredEntry(d, rp, rules, pathDir(p))

\* (C18) as claimed: the tree that ingestion returns has a node for an entry
\* below the root if and only if neither the entry nor a directory above it
\* below the root matches a default or supplied ignore rule, the name of a
\* directory being tested with "/" at its end.
C18_NodeIffNotIgnored ==
  (res.op = "generateAssetsTree" /\ res.root # NIL) =>
    LET rp == path[res.root]
        rules == defaultIgnoreRegexps \cup res.ignoreRegexps
    IN \A p \in BelowRoot(disk, rp) :
         (\E n \in Descendants(Heap, res.root) : path[n] = p)
           <=> ~IgnoredEntry(disk, rp, rules, p)

\* (C19) Ingestion of a root path that does not exist returns no error and
\* the root alone: a Directory named "assets" whose path is the cleaned root
\* path and that has no children.
C19_MissingRoot ==
  (res.op = "generateAssetsTree" /\ pathClean(res.assetsPath) \notin DOMAIN disk) =>
    /\ res.err = NoErr
    /\ res.root # NIL
    /\ t[res.root] = DIRNODE
    /\ name[res.root] = RootName
    /\ path[res.root] = pathClean(res.assetsPath)
    /\ firstChild[res.root] = NIL
    /\ parent[res.root] = NIL
    /\ nextSib[res.root] = NIL

\* the ingestion of "m/", which is not there while other entries are
C19_Witness ==
  /\ res.op = "generateAssetsTree"
  /\ res.root # NIL
  /\ path[res.root] = <<109>>
  /\ path[res.root] \notin DOMAIN disk
  /\ Cardinality(DOMAIN disk) > 1

\* the directories and images below rp that ingestion has to read and that
\* fail to read
FailingReads(d, rp, rules) ==
  {p \in BelowRoot(d, rp) :
     /\ ~IgnoredEntry(d, rp, rules, p)
     /\ d[p].fail # NoErr
     /\ (d[p].kind = KDir \/ imgNodeNameMatch(pathBase(p)))}

\* (C20) as claimed: ingestion returns an error and no tree whenever the
\* listing of a directory below the root or the reading of an image header
\* fails, a not-found failure included; only a missing root is tolerated.
C20_EveryFailedReadIsAnError ==
  (/\ res.op = "generateAssetsTree"
   /\ FailingReads(disk, pathClean(res.assetsPath),
                   defaultIgnoreRegexps \cup res.ignoreRegexps) # {}) =>
    res.err # NoErr /\ res.root = NIL

\* ------------------------------------------------- claims on the resolver
\* (C22) For every reference and every pair of trees, either of which may be
\* nil, searchedInPAT is true exactly when the reference is not empty and
\* does not start with "/", whether or not a node was found; an empty
\* reference and a reference whose selected tree is nil give the nil node.
C22_SearchedInPAT ==
  found.op = "findByRelPathInGATOrPAT" =>
    LET ref == found.relPath
        selected == IF ref # EmptyStr /\ ref[1] = Slash THEN found.gat ELSE found.pat
    IN /\ found.searchedInPAT <=> (ref # EmptyStr /\ ref[1] # Slash)
       /\ (ref = EmptyStr \/ selected = NIL) => found.n = NIL

\* a reference to the tree of a post that is not there, while the global
\* tree holds the path
C22_Witness ==
  /\ found.op = "findByRelPathInGATOrPAT"
  /\ found.pat = NIL
  /\ found.gat # NIL
  /\ found.relPath # EmptyStr
  /\ found.relPath[1] # Slash
  /\ found.searchedInPAT
  /\ found.n = NIL
  /\ LookupIn(Heap, found.gat, found.relPath) # NIL

\* ------------------------------------------------------------ the templates
\* the function that puts the slug of the post into every link
generateAssetsLinkFnSlugInEveryLink(h, gat, pat, postSlug, assetPath) ==
  LET f == findByRelPathInGATOrPAT(h, gat, pat, assetPath) IN
  IF f.n # NIL THEN [value |-> assetLink(h, f.n, postSlug, NoSize), err |-> NoErr]
  ELSE [value |-> EmptyStr, err |-> SomeErr]

\* the function that generateAssetsLinkFn(gat, pat, postSlug) returns,
\* applied to assetPath: the link and the error
generateAssetsLinkFn(h, gat, pat, postSlug, assetPath) ==
  LET resolved(f) ==
        IF f.n # NIL
        THEN [value |-> assetLink(h, f.n, IF f.searchedInPAT THEN postSlug ELSE EmptyStr,
                                  NoSize),
              err |-> NoErr]
        ELSE [value |-> EmptyStr, err |-> SomeErr]
  IN resolved(findByRelPathInGATOrPAT(h, gat, pat, assetPath))

\* the function that generateSrcSetValueFn(gat, pat, postSlug) returns,
\* applied to widths and imgPath: the tree and the output file system after
\* the call, the srcset value, the error (PanicErr when addSizes or
\* processSizes panics) and the os.ReadFile calls of the content query
generateSrcSetValueFn(h, o, d, gat, pat, postSlug, widths, imgPath) ==
  LET sized(n, searchedInPAT, h1, ps) ==
        IF ps.err = PanicErr
        THEN [h |-> h1, out |-> o, value |-> EmptyStr, err |-> PanicErr, reads |-> << >>]
        ELSE IF ps.err # NoErr
        THEN [h |-> ps.h, out |-> ps.out, value |-> EmptyStr, err |-> SomeErr,
              reads |-> contentReads(h1, n)]
        ELSE [h |-> ps.h, out |-> ps.out,
              value |-> generateSrcSetValue(ps.h, n, IF searchedInPAT THEN postSlug
                                                     ELSE EmptyStr).value,
              err |-> NoErr, reads |-> contentReads(h1, n)]
      added(n, searchedInPAT, h1) ==
        sized(n, searchedInPAT, h1, processSizes(h1, o, d, n, NoFault))
      resolved(f) ==
        IF f.n = NIL
        THEN [h |-> h, out |-> o, value |-> EmptyStr, err |-> SomeErr, reads |-> << >>]
        ELSE IF h.t[f.n] # IMGNODE \/ findOriginalSize(h, f.n) = 0
        THEN [h |-> h, out |-> o, value |-> EmptyStr, err |-> PanicErr, reads |-> << >>]
        ELSE added(f.n, f.searchedInPAT, addSizes(h, f.n, widths))
  IN resolved(findByRelPathInGATOrPAT(h, gat, pat, imgPath))

\* the slug "p" of the post, the directory "o/p" its tree is published into,
\* the bytes of its image and of the plain files
PostSlug == <<112>>
PostOutDir == pathJoin(OutDir, PostSlug)
PostImgData == <<106>>
FileData == <<102>>
ChildKinds == {"img", "file", "set"}
\* the widths of the two images, and the lists of widths the templates ask for
GlobalImgWidth == 12
PostImgWidth == 5
TemplateWidths == {<<w>> : w \in CandWidths} \cup {<<5, 2>>}

\* the paths the templates ask for: "", and the names of the two kinds of
\* node with and without the "/" of the global tree
TemplatePaths ==
  {EmptyStr} \cup {pre \o nm : pre \in {EmptyStr, <<Slash>>}, nm \in {ImgName, CssA}}

\* Build before it publishes: the global tree of the assets directory "r" is
\* node 1 and the tree of the post directory "br" is node 3, as
\* generateAssetsTree returns them; each holds one entry, an image "b.png"
\* or a file "a.css", which in the global tree may have been added with
\* addChild and setContent as Build adds the Chroma styles
InitTemplates ==
  \E gk \in ChildKinds, pk \in ChildKinds \ {"set"} :
    LET kind == [i \in NodeIds |-> IF i = 2 THEN gk ELSE IF i = 4 THEN pk ELSE "dir"]
        nameOf(i) == IF kind[i] = "img" THEN ImgName ELSE CssA
        rootOf(i) == IF i = 2 THEN RootPath ELSE PatRootPath
        width == [i \in NodeIds |-> IF i = 2 THEN GlobalImgWidth ELSE PostImgWidth]
        data == [i \in NodeIds |-> IF kind[i] # "img" THEN FileData
                                   ELSE IF i = 2 THEN ImgData ELSE PostImgData]
    IN
    /\ t = [i \in NodeIds |-> IF kind[i] = "dir" THEN (IF i \in {1, 3} THEN DIRNODE ELSE FILENODE)
                              ELSE IF kind[i] = "img" THEN IMGNODE ELSE FILENODE]
    /\ name = [i \in NodeIds |-> IF i \in {1, 3} THEN RootName
                                 ELSE IF i \in {2, 4} THEN nameOf(i) ELSE EmptyStr]
    /\ path = [i \in NodeIds |-> IF i = 1 THEN RootPath ELSE IF i = 3 THEN PatRootPath
                                 ELSE IF i \in {2, 4} THEN pathJoin(rootOf(i), nameOf(i))
                                 ELSE EmptyStr]
    /\ parent = [i \in NodeIds |-> IF i = 2 THEN 1 ELSE IF i = 4 THEN 3 ELSE NIL]
    /\ firstChild = [i \in NodeIds |-> IF i = 1 THEN 2 ELSE IF i = 3 THEN 4 ELSE NIL]
    /\ nextSib = [i \in NodeIds |-> NIL]
    /\ previous = [i \in NodeIds |-> NIL]
    /\ nAlloc = 4
    /\ roots = {1, 3}
    /\ lastOp = NoOp
    /\ tr = NoTr
    /\ found = NoFound
    /\ content = [i \in NodeIds |-> IF kind[i] = "set" THEN ChromaStyles ELSE NilContent]
    /\ sizes = [i \in NodeIds |-> IF i \in {2, 4} /\ kind[i] = "img"
                                  THEN <<ImgSize(TRUE, width[i], FALSE)>> ELSE << >>]
    /\ processedPath = [i \in NodeIds |-> EmptyStr]
    /\ processedRelPath = [i \in NodeIds |-> EmptyStr]
    /\ disk = [p \in {RootPath, PatRootPath} |-> DirIn(NoErr)]
                @@ [p \in {pathJoin(rootOf(i), nameOf(i)) : i \in {j \in {2, 4} : kind[j] # "set"}}
                      |-> LET i == CHOOSE j \in {2, 4} : pathJoin(rootOf(j), nameOf(j)) = p
                          IN FileIn(data[i], IF kind[i] = "img" THEN width[i] ELSE 0, NoErr)]
    /\ out = (OutDir :> DirOut) @@ (PostOutDir :> DirOut)
    /\ res = NoRes
    /\ reads = [i \in NodeIds |-> 0]

\* the tree of root has not been published
Unpublished(root) == \A n \in Allocated : parent[n] = root => processedPath[n] = EmptyStr

\* a template calls assetLink .. assetPath
AssetLinkFn(gat, pat, postSlug, assetPath) ==
  /\ LET returned(r) ==
           res' = [op |-> "assetLink", gat |-> gat, pat |-> pat, postSlug |-> postSlug,
                   assetPath |-> assetPath, value |-> r.value, err |-> r.err]
     IN returned(generateAssetsLinkFn(Heap, gat, pat, postSlug, assetPath))
  /\ UNCHANGED <<nodeVars, nAlloc, roots, lastOp, tr, found, disk, out, reads>>

\* a template calls srcSetValue .. imgPath widths
SrcSetValueFn(gat, pat, postSlug, widths, imgPath) ==
  /\ LET returned(r) ==
           /\ SetHeap(r.h)
           /\ out' = r.out
           /\ reads' = countReads(reads, r.reads)
           /\ res' = [op |-> "srcSetValue", gat |-> gat, pat |-> pat, postSlug |-> postSlug,
                      assetPath |-> imgPath, widths |-> widths, before |-> sizes,
                      outBefore |-> out, value |-> r.value, err |-> r.err]
     IN returned(generateSrcSetValueFn(Heap, out, disk, gat, pat, postSlug, widths, imgPath))
  /\ UNCHANGED <<nAlloc, roots, lastOp, tr, found, disk>>

\* Build publishes the global tree into "o" and the tree of the post into
\* "o/p", each once; the templates of the site are executed with the global
\* tree alone and the ones of the post with both trees and its slug
NextTemplates ==
  \/ Unpublished(1) /\ Publish(1, OutDir, NoFault)
  \/ Unpublished(3) /\ Publish(3, PostOutDir, NoFault)
  \/ \E c \in {<<NIL, EmptyStr>>, <<3, PostSlug>>}, assetPath \in TemplatePaths :
       AssetLinkFn(1, c[1], c[2], assetPath)
  \/ \E c \in {<<NIL, EmptyStr>>, <<3, PostSlug>>}, widths \in TemplateWidths,
        imgPath \in TemplatePaths :
       SrcSetValueFn(1, c[1], c[2], widths, imgPath)

SpecTemplates == InitTemplates /\ [][NextTemplates]_vars

\* ------------------------------------------------ claims on the templates
\* the node a template call resolved, nil when it found none
ResolvedNode ==
  findByRelPathInGATOrPAT(Heap, res.gat, res.pat, res.assetPath).n

\* the last part of the link to a published node n: its output path relative
\* to the output directory of its tree, for an image the file of the
\* original width in the directory named by the digest
LinkTail(n) ==
  IF t[n] = IMGNODE
  THEN processedRelPath[n] \o <<Slash>> \o Itoa(OriginalWidth(n)) \o ExtOf(name[n])
  ELSE processedRelPath[n]

\* (C23) The link assetLink gives for a published node is
\* /assets/<slug>/<output-relative path> exactly when the node was resolved
\* in the tree of the post, and /assets/<output-relative path> when it was
\* resolved in the global tree, also while a post is rendered; for an image
\* the last part is the file of the original width inside the directory of
\* the image.
C23_AssetLink ==
  (res.op = "assetLink" /\ ResolvedNode # NIL /\ processedRelPath[ResolvedNode] # EmptyStr) =>
    /\ res.err = NoErr
    /\ res.value =
         IF TopOf(Heap, ResolvedNode) = res.pat
         THEN AssetsLinkRoot \o <<Slash>> \o res.postSlug \o <<Slash>> \o LinkTail(ResolvedNode)
         ELSE AssetsLinkRoot \o <<Slash>> \o LinkTail(ResolvedNode)

\* a template of the post links to a published image of the global tree
C23_Witness ==
  /\ res.op = "assetLink"
  /\ res.pat = 3
  /\ res.postSlug = PostSlug
  /\ res.assetPath = <<Slash>> \o ImgName
  /\ ResolvedNode = 2
  /\ t[2] = IMGNODE
  /\ processedRelPath[2] = HexDigest(ImgData)
  /\ res.value = AssetsLinkRoot \o <<Slash>> \o HexDigest(ImgData) \o <<Slash>>
                   \o Itoa(GlobalImgWidth) \o <<46, 112, 110, 103>>

\* (C28) processSizes on an image that process has not given an output path
\* panics instead of returning an error, before a file is created and before
\* the processed flag of a size changes; a srcSetValue call of a template on
\* an image of a tree that was not published panics after addSizes has added
\* the widths asked for.
C28_PanicBeforeAnyFile ==
  (/\ res.op = "srcSetValue"
   /\ ResolvedNode # NIL
   /\ t[ResolvedNode] = IMGNODE
   /\ processedPath[ResolvedNode] = EmptyStr) =>
    LET n == ResolvedNode
        was == res.before[n]
    IN /\ res.err = PanicErr
       /\ out = res.outBefore
       /\ sizes[n] = addSizesLoop(was, was[1].width, res.widths)
       /\ \A i \in 1..Len(sizes[n]) :
            sizes[n][i].processed <=> (i <= Len(was) /\ was[i].processed)
       /\ \A m \in Allocated \ {n} : sizes[m] = res.before[m]

\* srcSetValue "/b.png" 5 2 on the image of the global tree before the tree
\* is published: the call panics and the image has the sizes of width 5 and 2
C28_Witness ==
  /\ res.op = "srcSetValue"
  /\ res.err = PanicErr
  /\ ResolvedNode = 2
  /\ t[2] = IMGNODE
  /\ processedPath[2] = EmptyStr
  /\ res.widths = <<5, 2>>
  /\ Len(res.before[2]) = 1
  /\ WidthsOf(sizes[2]) = {GlobalImgWidth, 5, 2}
  /\ out = (OutDir :> DirOut) @@ (PostOutDir :> DirOut)

\* the content queries of the step that has led to the primed state: process
\* asks for the content of every file once and of every image twice (for
\* the digest and in processSizes), srcSetValue once in processSizes
QueriesOn(n) ==
  IF res'.op = "process" /\ res'.err = NoErr /\ parent[n] = res'.node
  THEN (IF t[n] = IMGNODE THEN 2 ELSE 1)
  ELSE IF /\ res'.op = "srcSetValue"
          /\ res'.err # PanicErr
          /\ findByRelPathInGATOrPAT(Heap, res'.gat, res'.pat, res'.assetPath).n = n
  THEN 1
  ELSE 0

\* (C27) The content queries on a file or an image whose content is not set
\* read the backing file once each and keep nothing: publish reads the file
\* of an image twice and every later processSizes call reads it again, and
\* the content of the node stays unset; the file of a node whose content is
\* set is never read.
C27_ReadOnEveryQuery ==
  [][\A n \in Allocated :
       /\ content'[n] = content[n]
       /\ reads'[n] = IF content[n] # NilContent THEN 0
                      ELSE Min2(reads[n] + QueriesOn(n), MaxReads)]_vars

\* the file of the published image of the post has been read three times, by
\* publish and by one srcSetValue call, and the published file of the global
\* tree whose content is set has not been read
C27_Witness ==
  /\ t[4] = IMGNODE
  /\ processedPath[4] # EmptyStr
  /\ content[4] = NilContent
  /\ reads[4] = 3
  /\ res.op = "srcSetValue"
  /\ res.err = NoErr
  /\ ResolvedNode = 4
  /\ content[2] # NilContent
  /\ processedPath[2] # EmptyStr
  /\ reads[2] = 0

\* (C27) as stated: the backing file of a node is read at most once over any
\* sequence of content queries
C27_ReadAtMostOnce == \A n \in Allocated : reads[n] <= 1

\* ---------------------------------------------------- addChild on any node
\* n.addChild(ty, nm) on a node of any type: addChild does not look at n.t
AddChildOnAny(n, ty, nm) ==
  /\ nAlloc < MaxNodes
  /\ n \in Allocated
  /\ SetHeap(addChild(Heap, n, nAlloc + 1, ty, nm))
  /\ nAlloc' = nAlloc + 1
  /\ lastOp' = [NoOp EXCEPT !.op = "addChild", !.node = nAlloc + 1]
  /\ tr' = NoTr
  /\ found' = NoFound
  /\ UNCHANGED <<roots, disk, out, res, reads>>

\* nodes of the three types are added below nodes of the three types and
\* taken out again
NextAnyNode ==
  \/ \E n \in NodeIds, ty \in NodeTypes, nm \in {<<ChA>>, <<ChB>>} : AddChildOnAny(n, ty, nm)
  \/ \E n \in NodeIds : RemoveFromTree(n)

SpecAnyNode == Init /\ [][NextAnyNode]_vars

\* -------------------------------------------- claims on the types of nodes
\* (C24) After any sequence of addChild and removeFromTree calls, on nodes of
\* any type, only a directory has a first child.
C24_OnlyDirectoriesHaveChildren ==
  \A n \in Allocated : firstChild[n] # NIL => t[n] = DIRNODE

\* (C25) Every image node, one that addChild has made included, has exactly
\* one size marked original.
C25_OneOriginalSize ==
  \A n \in Allocated :
    t[n] = IMGNODE => Cardinality({i \in 1..Len(sizes[n]) : sizes[n][i].original}) = 1

IsPrefix(a, b) == Len(a) <= Len(b) /\ SubSeq(b, 1, Len(a)) = a

\* (C29) The closure of processCSSFileNodes takes the node it visits out of
\* the tree, and the walk goes on with the sibling that followed the node
\* before the visit: the closure is called on the root, then on each child
\* of the root once, in the order the children had before the call, up to
\* the child whose content cannot be read if there is one.
C29_RemovalInVisit ==
  res.op = "processCSSFileNodes" =>
    LET expected == <<res.node>> \o Children(res.before, res.node) IN
    /\ IsPrefix(res.visited, expected)
    /\ res.err = NoErr => res.visited = expected
    /\ res.err # NoErr => cssFilenameMatch(name[res.visited[Len(res.visited)]])

\* a style sheet was taken out of the tree during its visit and the
\* directory after it was visited
C29_Witness ==
  /\ res.op = "processCSSFileNodes"
  /\ res.err = NoErr
  /\ Len(res.visited) = 3
  /\ name[res.visited[2]] = CssA
  /\ parent[res.visited[2]] = NIL
  /\ nextSib[res.visited[2]] = NIL
  /\ res.before.next[res.visited[2]] = res.visited[3]
  /\ t[res.visited[3]] = DIRNODE
  /\ parent[res.visited[3]] = res.node

\* ------------------------------------------- claims on the output paths
\* the files of the tree of root can be read
ReadsSucceed(root) ==
  \A n \in Descendants(Heap, root) :
    (t[n] # DIRNODE /\ content[n] = NilContent) => osReadFile(disk, path[n]).err = NoErr

UniqueSiblingNames(root) ==
  \A n, m \in Descendants(Heap, root) :
    (n # m /\ parent[n] = parent[m]) => name[n] # name[m]

\* (C30) The publish of a tree with unique sibling names into an empty
\* output directory, with every file readable, returns no error and gives
\* every node below the root an output path of its own, whatever the
\* contents of the files.
C30_NoCollision ==
  (/\ res.op = "process"
   /\ UniqueSiblingNames(res.node)
   /\ ReadsSucceed(res.node)) =>
    /\ res.err = NoErr
    /\ \A n \in Descendants(Heap, res.node) : processedPath[n] # EmptyStr
    /\ \A n, m \in Descendants(Heap, res.node) :
         n # m => processedPath[n] # processedPath[m]

\* ------------------------------------------- claims on a failed publish
\* node n of the published tree has its output: a directory, a file with the
\* content of n, or the directory of an image with the file of its original
\* size, marked processed
HasOutput(n) ==
  /\ processedPath[n] # EmptyStr
  /\ processedPath[n] \in DOMAIN out
  /\ t[n] = DIRNODE => out[processedPath[n]].kind = KDir
  /\ t[n] = FILENODE => /\ out[processedPath[n]].kind = KFile
                        /\ out[processedPath[n]].data = ContentOf(Heap, disk, n)
  /\ t[n] = IMGNODE =>
       LET f == processedPath[n] \o <<Slash>> \o Itoa(OriginalWidth(n)) \o ExtOf(name[n]) IN
       /\ out[processedPath[n]].kind = KDir
       /\ f \in DOMAIN out
       /\ out[f].data = ContentOf(Heap, disk, n)
       /\ sizes[n][findOriginalSize(Heap, n)].processed

\* nothing of node n is in the output
HasNoOutput(n) ==
  /\ processedPath[n] = EmptyStr
  /\ processedRelPath[n] = EmptyStr
  /\ \A i \in 1..Len(sizes[n]) : ~sizes[n][i].processed

\* the entries of the output that belong to node n
OutputOf(n) ==
  IF processedPath[n] = EmptyStr THEN {}
  ELSE {p \in DOMAIN out : p = processedPath[n] \/ pathDir(p) = processedPath[n]}

====
